---- MODULE Spec2Model ----
(***************************************************************************)
(* The web-search agent of deep-research-agent-ai-hub: WebSearchAgent.run  *)
(* (agent.ts), WebSearchTool._call (tools.ts), BrightDataScraper.searchWeb *)
(* (scraper.ts) and NosanaLLM.generate/chat with their protocol fallback   *)
(* (llm.ts).                                                               *)
(*                                                                         *)
(* A JavaScript string is a sequence of symbols: a symbol is one character *)
(* or one literal chunk of a template, kept whole.  A JavaScript value is  *)
(* a tagged record, so that property access, truthiness and serialization  *)
(* are computed as the language computes them.                             *)
(***************************************************************************)
EXTENDS Integers, Sequences, FiniteSets, TLC

VARIABLES
    baseUrl,        \* NosanaLLM.baseUrl, fixed by the constructor
    model,          \* NosanaLLM.model, fixed by the constructor
    pc,             \* where the current run() is suspended
    userQuery,      \* run(): parameter userQuery
    classification, \* shouldSearch(): the model's response
    needsSearch,    \* run(): const needsSearch
    extraction,     \* extractSearchQuery(): the model's response
    searchQuery,    \* run(): const searchQuery
    searchResults,  \* run(): const searchResults
    result,         \* how run() ended: nothing yet, a returned value, a thrown error
    calls,          \* the client calls run() has made, in order
    llm,            \* the NosanaLLM call in progress
    search,         \* the WebSearchTool._call / searchWeb call in progress
    apiToken,       \* BrightDataScraper.apiToken, fixed by the constructor
    zone,           \* BrightDataScraper.zone, fixed by the constructor
    nRuns,          \* run() invocations started so far
    probe,          \* the testConnection() call: its GET requests, their outcomes, its value
    answers,        \* the outcomes of the HTTP requests of the current run(), in order
    others,         \* the run() invocations of other callers, suspended at an await or ended
    prev,           \* the first run() that ran with no other started: query, answers, calls, result
    front,          \* App.tsx: the state of the React component, and its fetch in flight
    http,           \* server.ts: the POST /api/query being handled, and the responses sent
    cli             \* index.ts: the readline loop

vars == <<baseUrl, model, pc, userQuery, classification, needsSearch, extraction, searchQuery,
          searchResults, result, calls, llm, search, apiToken, zone, nRuns,
          probe, answers, others, prev, front, http, cli>>

----------------------------------------------------------------------------
(* Bounds of the model. *)

\* longest run of blanks put around a text
MaxPad == 1
\* run() invocations in one behaviour, one after the other
MaxRuns == 3

----------------------------------------------------------------------------
(* JavaScript strings. *)

IsSpace(c) == c \in {" ", "\t", "\n"}

RECURSIVE trimStart(_)
trimStart(s) ==
    IF Len(s) > 0 /\ IsSpace(s[1]) THEN trimStart(SubSeq(s, 2, Len(s))) ELSE s

RECURSIVE trimEnd(_)
trimEnd(s) ==
    IF Len(s) > 0 /\ IsSpace(s[Len(s)]) THEN trimEnd(SubSeq(s, 1, Len(s) - 1)) ELSE s

\* String.prototype.trim
trim(s) == trimEnd(trimStart(s))

LowerChar(c) ==
    CASE c = "Y" -> "y" [] c = "E" -> "e" [] c = "S" -> "s"
      [] c = "N" -> "n" [] c = "O" -> "o" [] c = "X" -> "x"
      [] c = "I" -> "i" [] c = "T" -> "t" [] OTHER -> c

\* String.prototype.toLowerCase
toLowerCase(s) == SubSeq([i \in 1..Len(s) |-> LowerChar(s[i])], 1, Len(s))

\* String.prototype.includes
includes(s, sub) ==
    \E i \in 0..(Len(s) - Len(sub)) : SubSeq(s, i + 1, i + Len(sub)) = sub

\* String.prototype.startsWith
startsWith(s, prefix) ==
    Len(s) >= Len(prefix) /\ SubSeq(s, 1, Len(prefix)) = prefix

----------------------------------------------------------------------------
(* JavaScript values. *)

JUndefined == [t |-> "undefined"]
JNull == [t |-> "null"]
JString(s) == [t |-> "string", s |-> s]
\* props: the object's own properties in insertion order, each [k, v]
JObject(props) == [t |-> "object", props |-> props]
JArray(items) == [t |-> "array", items |-> items]
\* the outcome of an access that throws TypeError
TypeError == [t |-> "TypeError"]

Prop1(k, v) == <<[k |-> k, v |-> v]>>

\* x.name
Get(x, name) ==
    CASE x.t \in {"undefined", "null", "TypeError"} -> TypeError
      [] x.t = "object" ->
            IF \E i \in 1..Len(x.props) : x.props[i].k = name
            THEN x.props[CHOOSE i \in 1..Len(x.props) : x.props[i].k = name].v
            ELSE JUndefined
      [] OTHER -> JUndefined

\* x[0]
First(x) ==
    CASE x.t \in {"undefined", "null", "TypeError"} -> TypeError
      [] x.t = "array" -> IF Len(x.items) > 0 THEN x.items[1] ELSE JUndefined
      [] x.t = "string" -> IF Len(x.s) > 0 THEN JString(<<x.s[1]>>) ELSE JUndefined
      [] OTHER -> JUndefined

\* !!x
Truthy(x) ==
    CASE x.t \in {"undefined", "null"} -> FALSE
      [] x.t = "string" -> Len(x.s) > 0
      [] OTHER -> TRUE

\* Object.keys(x).length, x neither undefined nor null
KeyCount(x) ==
    CASE x.t = "object" -> Len(x.props)
      [] x.t = "array" -> Len(x.items)
      [] x.t = "string" -> Len(x.s)
      [] OTHER -> 0

----------------------------------------------------------------------------
(* axios: the outcome of one HTTP request. *)

\* the server answered with a status line and a body
Reply(status, data) ==
    [kind |-> "response", status |-> status, data |-> data,
     message |-> IF status >= 200 /\ status < 300 THEN <<>>
                 ELSE <<"Request failed with status code ", ToString(status)>>]
\* the request was sent and nothing came back (error.request without error.response)
NoReply(message) ==
    [kind |-> "noResponse", status |-> 0, data |-> JUndefined, message |-> <<message>>]
\* the request could not be built (neither error.response nor error.request)
SetupFailure ==
    [kind |-> "setup", status |-> 0, data |-> JUndefined, message |-> <<"setup">>]

\* axios resolves on 2xx and rejects otherwise (default validateStatus)
resolves(o) == o.kind = "response" /\ o.status >= 200 /\ o.status < 300

\* new Error(...): the template's literal text, and what it interpolates
\* (status 0 / data undefined / empty cause: not part of the message)
Error(text, status, data, cause) ==
    [t |-> "Error", text |-> text, status |-> status, data |-> data, cause |-> cause]

\* the rejection of a request whose timer ran out: no response was received
TimedOut == NoReply("timeout of 60000ms exceeded")

\* the message of the TypeError a failed property access throws
TypeErrorMessage == <<"Cannot read properties of undefined">>

----------------------------------------------------------------------------
(* NosanaLLM (llm.ts). *)

RECURSIVE stripTrailingSlashes(_)
\* replace(/\/+$/, '')
stripTrailingSlashes(u) ==
    IF Len(u) > 0 /\ u[Len(u)] = "/"
    THEN stripTrailingSlashes(SubSeq(u, 1, Len(u) - 1))
    ELSE u

\* replace(/\/api$/, '')
stripApiSuffix(u) ==
    IF Len(u) >= 4 /\ SubSeq(u, Len(u) - 3, Len(u)) = <<"/", "a", "p", "i">>
    THEN SubSeq(u, 1, Len(u) - 4)
    ELSE u

\* constructor: this.baseUrl
normalizeBaseUrl(u) == stripApiSuffix(stripTrailingSlashes(u))

\* constructor: this.model = model || String(process.env.NOSANA_MODEL)
resolveModel(given, env) ==
    IF Truthy(given) THEN given.s
    ELSE IF env.t = "string" THEN env.s ELSE <<"undefined">>

\* the timeout option of the client's POST requests, in ms
LlmTimeoutMs == 60000

LlmIdle ==
    [state |-> "idle", op |-> "none", prompt |-> <<>>, messages |-> <<>>,
     requests |-> <<>>, replies |-> <<>>, value |-> JUndefined]

\* the body of POST {base}/v1/chat/completions
completionBody(messages) ==
    [model |-> model, messages |-> messages, temperature |-> "0.7",
     max_tokens |-> 1000, stream |-> FALSE]

completionsUrl == baseUrl \o <<"/v1/chat/completions">>
generateUrl == baseUrl \o <<"/api/generate">>
chatUrl == baseUrl \o <<"/api/chat">>

\* faulty variant: after a call that fell back, the native endpoint is asked first
generateRemembersFallback(prompt) ==
    IF Len(llm.requests) = 2
    THEN [state |-> "fallback", op |-> "generate", prompt |-> prompt, messages |-> <<>>,
          requests |-> <<[url |-> generateUrl, timeout |-> LlmTimeoutMs,
                          body |-> [model |-> model, prompt |-> prompt, stream |-> FALSE]]>>,
          replies |-> <<>>, value |-> JUndefined]
    ELSE [state |-> "primary", op |-> "generate", prompt |-> prompt, messages |-> <<>>,
          requests |-> <<[url |-> completionsUrl, timeout |-> LlmTimeoutMs,
                          body |-> completionBody(<<[role |-> "user", content |-> prompt]>>)]>>,
          replies |-> <<>>, value |-> JUndefined]

\* generate(prompt), up to its first await: the primary POST is out
generate(prompt) ==
    [state |-> "primary", op |-> "generate", prompt |-> prompt, messages |-> <<>>,
     requests |-> <<[url |-> completionsUrl, timeout |-> LlmTimeoutMs,
                     body |-> completionBody(<<[role |-> "user", content |-> prompt]>>)]>>,
     replies |-> <<>>, value |-> JUndefined]

\* chat(messages), up to its first await: the primary POST is out
chat(messages) ==
    [state |-> "primary", op |-> "chat", prompt |-> <<>>, messages |-> messages,
     requests |-> <<[url |-> completionsUrl, timeout |-> LlmTimeoutMs,
                     body |-> completionBody(messages)]>>,
     replies |-> <<>>, value |-> JUndefined]

\* response.data.choices[0].message.content
completionContent(data) == Get(Get(First(Get(data, "choices")), "message"), "content")

\* faulty variant: 405 is not taken for an unsupported endpoint
isFallbackStatus404Only(status) == status = 404

\* the statuses on which the native Ollama endpoint is tried
isFallbackStatus(status) == status = 404 \/ status = 405

returned(c, o, v) == [c EXCEPT !.state = "returned", !.replies = @ \o <<o>>, !.value = v]
thrown(c, o, e) == [c EXCEPT !.state = "thrown", !.replies = @ \o <<o>>, !.value = e]

\* generateNativeOllama(prompt), up to its await: the fallback POST is out
generateNativeOllama(c, o) ==
    [c EXCEPT !.state = "fallback", !.replies = @ \o <<o>>,
              !.requests = @ \o <<[url |-> generateUrl, timeout |-> LlmTimeoutMs,
                                   body |-> [model |-> model, prompt |-> c.prompt,
                                             stream |-> FALSE]]>>]

\* faulty variant: the native endpoint is sent the last message alone
chatNativeOllamaLastOnly(c, o) ==
    [c EXCEPT !.state = "fallback", !.replies = @ \o <<o>>,
              !.requests = @ \o <<[url |-> chatUrl, timeout |-> LlmTimeoutMs,
                                   body |-> [model |-> model,
                                             messages |-> <<c.messages[Len(c.messages)]>>,
                                             stream |-> FALSE]]>>]

\* chatNativeOllama(messages), up to its await: the fallback POST is out
chatNativeOllama(c, o) ==
    [c EXCEPT !.state = "fallback", !.replies = @ \o <<o>>,
              !.requests = @ \o <<[url |-> chatUrl, timeout |-> LlmTimeoutMs,
                                   body |-> [model |-> model, messages |-> c.messages,
                                             stream |-> FALSE]]>>]

\* generate(): from the primary request's outcome to return, throw or fallback
generateOnPrimary(c, o) ==
    IF resolves(o)
    THEN IF completionContent(o.data) = TypeError
         THEN thrown(c, o, Error("Request failed: ", 0, JUndefined, TypeErrorMessage))
         ELSE returned(c, o, completionContent(o.data))
    ELSE IF o.kind = "response"
    THEN IF isFallbackStatus(o.status)
         THEN generateNativeOllama(c, o)
         ELSE thrown(c, o, Error("Nosana API Error ", o.status, o.data, <<>>))
    ELSE IF o.kind = "noResponse"
    THEN thrown(c, o, Error("No response from Nosana: ", 0, JUndefined, o.message))
    ELSE thrown(c, o, Error("Request failed: ", 0, JUndefined, o.message))

\* faulty variant: the fallback is tried again when it is itself answered 404 or 405
generateOnFallbackRetry(c, o) ==
    IF resolves(o) /\ Get(o.data, "response") # TypeError
    THEN returned(c, o, Get(o.data, "response"))
    ELSE IF o.kind = "response" /\ isFallbackStatus(o.status)
    THEN generateNativeOllama(c, o)
    ELSE thrown(c, o, Error("Both API formats failed. Check Nosana documentation for correct endpoint.",
                            0, JUndefined, <<>>))

\* generateNativeOllama(): from the fallback request's outcome to return or throw
generateOnFallback(c, o) ==
    IF resolves(o) /\ Get(o.data, "response") # TypeError
    THEN returned(c, o, Get(o.data, "response"))
    ELSE thrown(c, o, Error("Both API formats failed. Check Nosana documentation for correct endpoint.",
                            0, JUndefined, <<>>))

\* chat(): from the primary request's outcome to return, throw or fallback
chatOnPrimary(c, o) ==
    IF resolves(o)
    THEN IF completionContent(o.data) = TypeError
         THEN thrown(c, o, Error("Chat request failed: ", 0, JUndefined, TypeErrorMessage))
         ELSE returned(c, o, completionContent(o.data))
    ELSE IF o.kind = "response"
    THEN IF isFallbackStatus(o.status)
         THEN chatNativeOllama(c, o)
         ELSE thrown(c, o, Error("Chat API Error: ", 0, o.data, <<>>))
    ELSE thrown(c, o, Error("Chat request failed: ", 0, JUndefined, o.message))

\* chatNativeOllama(): from the fallback request's outcome to return or throw
chatOnFallback(c, o) ==
    IF resolves(o) /\ Get(Get(o.data, "message"), "content") # TypeError
    THEN returned(c, o, Get(Get(o.data, "message"), "content"))
    ELSE thrown(c, o, Error("Native chat also failed: ", 0, JUndefined,
                            IF resolves(o) THEN TypeErrorMessage ELSE o.message))

----------------------------------------------------------------------------
(* BrightDataScraper (scraper.ts) and WebSearchTool (tools.ts). *)

EncodeChar(c) ==
    CASE c = " " -> "%20" [] c = "\t" -> "%09" [] c = "\n" -> "%0A"
      [] c = "," -> "%2C" [] OTHER -> c

\* encodeURIComponent
encodeURIComponent(s) == SubSeq([i \in 1..Len(s) |-> EncodeChar(s[i])], 1, Len(s))

SearchIdle ==
    [state |-> "idle", query |-> <<>>, requests |-> <<>>, reply |-> [t |-> "none"],
     value |-> [t |-> "none"]]

\* searchWeb(query), up to its await: the POST to {baseUrl}/request is out.
\* No timeout option is given: the request has the default of axios, 0, no limit.
searchWeb(query) ==
    [state |-> "inflight", query |-> query, reply |-> [t |-> "none"],
     value |-> [t |-> "none"],
     requests |-> <<[url |-> <<"https://api.brightdata.com", "/request">>, timeout |-> 0,
                     authorization |-> <<"Bearer ">> \o apiToken,
                     body |-> [zone |-> zone,
                               url |-> <<"https://www.google.com/search?q=">>
                                       \o encodeURIComponent(query) \o <<"&hl=en&gl=us">>,
                               format |-> "json", data_format |-> "parsed_light"]]>>]

\* faulty variant: a failed request is returned as an {error: message} marker
searchWebResultErrorMarker(o) ==
    IF resolves(o)
    THEN IF ~Truthy(o.data) THEN JObject(<<>>)
         ELSE IF Truthy(Get(o.data, "body")) THEN Get(o.data, "body")
         ELSE o.data
    ELSE JObject(Prop1("error", JString(o.message)))

\* searchWeb(): the value returned for the request's outcome
searchWebResult(o) ==
    IF resolves(o)
    THEN IF ~Truthy(o.data) THEN JObject(<<>>)
         ELSE IF Truthy(Get(o.data, "body")) THEN Get(o.data, "body")
         ELSE o.data
    ELSE JObject(<<>>)

RECURSIVE stringify(_)
RECURSIVE stringifyProps(_)
RECURSIVE stringifyItems(_)
\* JSON.stringify(value, null, 2); the blanks of the indentation are left out.
\* A value it cannot write (a BigInt, a nesting too deep) makes it throw: TypeError
\* stands for whatever it throws.
stringify(v) ==
    CASE v.t = "string" -> <<"\"">> \o v.s \o <<"\"">>
      [] v.t = "null" -> <<"null">>
      [] v.t = "object" ->
            IF stringifyProps(v.props) = TypeError THEN TypeError
            ELSE <<"{">> \o stringifyProps(v.props) \o <<"}">>
      [] v.t = "array" ->
            IF stringifyItems(v.items) = TypeError THEN TypeError
            ELSE <<"[">> \o stringifyItems(v.items) \o <<"]">>
      [] OTHER -> TypeError

stringifyProps(props) ==
    IF Len(props) = 0 THEN <<>>
    ELSE IF stringify(props[1].v) = TypeError
            \/ stringifyProps(Tail(props)) = TypeError THEN TypeError
    ELSE <<"\n", "\"", props[1].k, "\"", ":", " ">> \o stringify(props[1].v)
         \o (IF Len(props) > 1 THEN <<",">> ELSE <<"\n">>)
         \o stringifyProps(Tail(props))

stringifyItems(items) ==
    IF Len(items) = 0 THEN <<>>
    ELSE IF stringify(items[1]) = TypeError
            \/ stringifyItems(Tail(items)) = TypeError THEN TypeError
    ELSE <<"\n">> \o stringify(items[1])
         \o (IF Len(items) > 1 THEN <<",">> ELSE <<"\n">>)
         \o stringifyItems(Tail(items))

NoResultsFound == <<"No results found.">>
ErrorPrefix == <<"E", "r", "r", "o", "r", ":">>

\* faulty variant: the query is not trimmed before its length is tested
isInvalidQueryUntrimmed(q) == ~Truthy(q) \/ q.t # "string"

\* faulty variant: only the type is tested
isInvalidQueryTypeOnly(q) == q.t # "string"

\* !query || typeof query !== 'string' || query.trim().length === 0
isInvalidQuery(q) == ~Truthy(q) \/ q.t # "string" \/ Len(trim(q.s)) = 0

\* _call(): the text returned once searchWeb has returned `results`
callResult(results) ==
    IF ~Truthy(results) \/ KeyCount(results) = 0 THEN NoResultsFound
    ELSE IF stringify(results) = TypeError
    THEN <<"E", "r", "r", "o", "r", " processing results.">>
    ELSE stringify(results)

----------------------------------------------------------------------------
(* WebSearchAgent (agent.ts): prompts and decisions. *)

\* a local not assigned yet
None == [t |-> "none"]

Pending == [kind |-> "pending", value |-> None]
Return(v) == [kind |-> "return", value |-> v]
Throw(e) == [kind |-> "throw", value |-> e]

InvalidQueryText == <<"E", "r", "r", "o", "r", ":", " Invalid query provided.">>
ExtractionFailedText ==
    <<"E", "r", "r", "o", "r", ":", " Could not extract a valid search query.">>
InvalidSearchQueryText ==
    <<"E", "r", "r", "o", "r", ":", " Invalid search query provided.">>

\* shouldSearch(): the prompt
classifyPrompt(query) ==
    <<"Does this question require searching the web for current information? Answer only YES or NO.\n    \nQuestion: ">>
    \o query \o <<"\n\nAnswer:">>

\* faulty variant: search unless the model said no
shouldSearchUnlessNo(response) == ~includes(toLowerCase(response), <<"n", "o">>)

\* faulty variant: the response is not lower-cased
shouldSearchCaseSensitive(response) == includes(response, <<"y", "e", "s">>)

\* shouldSearch(): the decision on the model's response
shouldSearch(response) == includes(toLowerCase(response), <<"y", "e", "s">>)

\* extractSearchQuery(): the prompt
extractPrompt(query) ==
    <<"Extract a concise search query (3-6 words) from this question:\n\nQuestion: ">>
    \o query \o <<"\n\nSearch query:">>

\* faulty variant: every text that begins with the word Error is an error message
isSearchFailureErrorWord(text) ==
    startsWith(text, <<"E", "r", "r", "o", "r">>) \/ text = NoResultsFound

\* generateAnswer(): the text that is an error message instead of results
isSearchFailure(text) == startsWith(text, ErrorPrefix) \/ text = NoResultsFound

\* generateAnswer(): the apology
apology(originalQuery) ==
    <<"I couldn't find information about \"">> \o originalQuery
    \o <<"\" due to a search error. Please try rephrasing your question.">>

\* generateAnswer(): the prompt
answerPrompt(originalQuery, text) ==
    <<"Based on the following search results, answer the user's question accurately and concisely.\n\nUser Question: ">>
    \o originalQuery \o <<"\n\nSearch Results:\n">> \o text \o <<"\n\nAnswer:">>

\* generateAnswer(): the messages given to chat()
answerMessages(originalQuery, text) ==
    <<[role |-> "system",
       content |-> <<"You are a helpful AI assistant that answers questions based on search results. Be concise and accurate.">>],
      [role |-> "user", content |-> answerPrompt(originalQuery, text)]>>

GenerateCall(prompt) == [op |-> "generate", prompt |-> prompt, messages |-> <<>>, query |-> <<>>]
ChatCall(messages) == [op |-> "chat", prompt |-> <<>>, messages |-> messages, query |-> <<>>]
SearchCall(query) == [op |-> "search", prompt |-> <<>>, messages |-> <<>>, query |-> query]

----------------------------------------------------------------------------
(* What the upstreams may be given and may answer. *)

Pad(n) == [i \in 1..n |-> " "]
Pads == {SubSeq(Pad(n), 1, n) : n \in 0..MaxPad}
Padded(cores) == {l \o c \o r : l \in Pads, r \in Pads, c \in cores}

Queries ==
    {JString(s) : s \in Padded({<<>>, <<"q", "?">>}) \cup {<<"\t", "\n">>}}
    \cup {JUndefined}

YesBecause == <<"Y", "e", "s", ",", " because...">>
Yesterday == <<"y", "e", "s", "t", "e", "r", "d", "a", "y">>
NoDot == <<"N", "o", ".">>
NotNeeded == <<"N", "o", "t", " ", "n", "e", "e", "d", "e", "d">>

LLMTexts == {YesBecause, Yesterday, NoDot, NotNeeded} \cup Padded({<<>>, <<"k", "w">>})

\* {choices: [{message: {content}}]}
Completion(content) ==
    JObject(Prop1("choices",
        JArray(<<JObject(Prop1("message", JObject(Prop1("content", JString(content)))))>>)))

ErrorBody == JObject(Prop1("error", JString(<<"upstream">>)))

PrimaryOutcomes ==
    {Reply(200, Completion(c)) : c \in LLMTexts}
    \cup {Reply(200, d) : d \in
            {JString(<<>>), JObject(<<>>), JObject(Prop1("choices", JArray(<<>>))),
             JObject(Prop1("choices", JArray(<<JObject(<<>>)>>))),
             JObject(Prop1("choices", JArray(<<JObject(Prop1("message", JObject(<<>>)))>>)))}}
    \cup {Reply(st, ErrorBody) : st \in {404, 405, 500}}
    \cup {NoReply("Network Error"), NoReply("timeout of 60000ms exceeded"), SetupFailure}

FallbackOutcomes ==
    {Reply(200, JObject(Prop1("response", JString(c)))) : c \in LLMTexts}
    \cup {Reply(200, JObject(Prop1("message", JObject(Prop1("content", JString(c)))))) :
            c \in LLMTexts}
    \cup {Reply(200, d) : d \in
            {JString(<<>>), JNull, JObject(<<>>), JObject(Prop1("message", JObject(<<>>)))}}
    \cup {Reply(st, ErrorBody) : st \in {404, 405, 500}}
    \cup {NoReply("Network Error"), NoReply("timeout of 60000ms exceeded"), SetupFailure}

\* arrays nested deeper than JSON.stringify can follow: JSON.parse reads them from
\* the response, JSON.stringify throws RangeError on them
TooDeep == [t |-> "deep"]

Organic ==
    JObject(Prop1("organic",
        JArray(<<JObject(Prop1("title", JString(<<"t">>)) \o Prop1("snippet", JString(<<"18C">>)))>>)))

SearchOutcomes ==
    {Reply(200, d) : d \in
        {JString(<<>>), JNull,
         JObject(Prop1("body", Organic)),
         JObject(Prop1("body", JObject(<<>>))),
         JObject(Prop1("body", JArray(<<>>))),
         JObject(Prop1("body", JString(<<>>))),
         JObject(Prop1("body", JString(ErrorPrefix \o <<" blocked">>))),
         JObject(Prop1("status_code", JString(<<"200">>))),
         JString(ErrorPrefix \o <<" blocked">>),
         JObject(Prop1("body", JArray(<<TooDeep>>))),
         ErrorBody}}
    \cup {Reply(st, ErrorBody) : st \in {401, 500}}
    \cup {NoReply("Network Error")}

BaseUrlInputs ==
    {<<"https://node">>, <<"https://node", "/">>,
     <<"https://node", "/", "a", "p", "i">>, <<"https://node", "/", "a", "p", "i", "/">>}

----------------------------------------------------------------------------
(* The state machine. *)

config == <<baseUrl, model, apiToken, zone>>
locals == <<classification, needsSearch, extraction, searchQuery, searchResults>>
\* what a step of one run() does not touch: testConnection(), and the other callers
apart == <<probe, answers, others, prev, front, http, cli>>
\* what the agent does not touch: the programs that call it
callers == <<front, http, cli>>

\* App.tsx: the useState() initial values; nothing was submitted
FrontIdle ==
    [query |-> <<>>, loading |-> FALSE, result |-> JString(<<>>), error |-> JString(<<>>),
     history |-> <<>>, request |-> [t |-> "none"], sent |-> 0, settled |-> 0,
     succeeded |-> <<>>]

\* server.ts: no request has come in
HttpIdle == [state |-> "listening", body |-> [t |-> "none"], responses |-> <<>>]

\* index.ts: main() has not been called
CliIdle == [state |-> "off", line |-> <<>>, prompts |-> 0, printed |-> Pending]

\* no testConnection() call was made
ProbeIdle == [requests |-> <<>>, replies |-> <<>>, value |-> "none"]

\* the agent is built, and none of its methods was called
NoCallYet ==
    /\ userQuery = None
    /\ classification = None
    /\ needsSearch = FALSE
    /\ extraction = None
    /\ searchQuery = None
    /\ searchResults = None
    /\ result = Pending
    /\ calls = <<>>
    /\ llm = LlmIdle
    /\ search = SearchIdle
    /\ nRuns = 0
    /\ probe = ProbeIdle
    /\ answers = <<>>
    /\ prev = None
    /\ front = FrontIdle
    /\ http = HttpIdle
    /\ cli = CliIdle

Init ==
    /\ baseUrl \in {normalizeBaseUrl(u) : u \in BaseUrlInputs}
    /\ model \in {resolveModel(m, JString(<<"llama3">>)) : m \in {JUndefined, JString(<<"llama3">>)}}
    /\ apiToken = <<"token">>
    /\ zone = <<"serp_api1">>
    /\ pc = "idle"
    /\ NoCallYet
    /\ others = <<>>

\* run() ends; llm keeps the record of the client's last call
Finish(r) ==
    /\ pc' = "done"
    /\ result' = r

\* run() suspends on a call of the language-model client
Await(stage, call, c) ==
    /\ pc' = stage
    /\ result' = result
    /\ calls' = Append(calls, call)
    /\ llm' = c

\* faulty variant: the answer to the query asked last is kept and returned again
RunCached(q) ==
    /\ pc \in {"idle", "done"}
    /\ nRuns < MaxRuns
    /\ nRuns' = nRuns + 1
    /\ userQuery' = q
    /\ classification' = None
    /\ needsSearch' = FALSE
    /\ extraction' = None
    /\ searchQuery' = None
    /\ searchResults' = None
    /\ search' = SearchIdle
    /\ IF isInvalidQuery(q)
       THEN /\ Finish(Return(JString(InvalidQueryText)))
            /\ calls' = <<>>
            /\ llm' = LlmIdle
       ELSE IF pc = "done" /\ q = userQuery /\ result.kind = "return"
       THEN /\ Finish(result)
            /\ calls' = <<>>
            /\ llm' = LlmIdle
       ELSE /\ pc' = "classify"
            /\ result' = Pending
            /\ calls' = <<GenerateCall(classifyPrompt(q.s))>>
            /\ llm' = generate(classifyPrompt(q.s))
    /\ UNCHANGED config

\* run(userQuery), to its first await or its early return
Run(q) ==
    /\ pc \in {"idle", "done"}
    /\ nRuns < MaxRuns
    /\ nRuns' = nRuns + 1
    /\ userQuery' = q
    /\ classification' = None
    /\ needsSearch' = FALSE
    /\ extraction' = None
    /\ searchQuery' = None
    /\ searchResults' = None
    /\ search' = SearchIdle
    /\ IF isInvalidQuery(q)
       THEN /\ Finish(Return(JString(InvalidQueryText)))
            /\ calls' = <<>>
            /\ llm' = LlmIdle
       ELSE /\ pc' = "classify"
            /\ result' = Pending
            /\ calls' = <<GenerateCall(classifyPrompt(q.s))>>
            /\ llm' = generate(classifyPrompt(q.s))
    /\ UNCHANGED config

\* faulty variant: after a 404 or 405 the client repoints its base URL to the native API
PrimaryResponseRepoints(o) ==
    /\ llm.state = "primary"
    /\ llm' = IF llm.op = "generate" THEN generateOnPrimary(llm, o) ELSE chatOnPrimary(llm, o)
    /\ baseUrl' = IF o.kind = "response" /\ isFallbackStatus(o.status)
                  THEN baseUrl \o <<"/api">> ELSE baseUrl
    /\ UNCHANGED <<model, apiToken, zone, locals, pc, userQuery, result, calls, search, nRuns>>

\* the primary request of the call in progress ends with outcome o
PrimaryResponse(o) ==
    /\ llm.state = "primary"
    /\ llm' = IF llm.op = "generate" THEN generateOnPrimary(llm, o) ELSE chatOnPrimary(llm, o)
    /\ UNCHANGED <<config, locals, pc, userQuery, result, calls, search, nRuns>>

\* the fallback request of the call in progress ends with outcome o
FallbackResponse(o) ==
    /\ llm.state = "fallback"
    /\ llm' = IF llm.op = "generate" THEN generateOnFallback(llm, o) ELSE chatOnFallback(llm, o)
    /\ UNCHANGED <<config, locals, pc, userQuery, result, calls, search, nRuns>>

\* faulty variant: the search is sent with the raw query while the extraction is awaited
ClassifyDoneSpeculative ==
    /\ pc = "classify"
    /\ llm.state \in {"returned", "thrown"}
    /\ IF llm.state = "thrown"
       THEN /\ Finish(Throw(llm.value))
            /\ UNCHANGED <<classification, needsSearch, calls, llm, search>>
       ELSE /\ classification' = llm.value
            /\ IF llm.value.t # "string"
               THEN /\ Finish(Throw(TypeError))
                    /\ UNCHANGED <<needsSearch, calls, llm, search>>
               ELSE /\ needsSearch' = shouldSearch(llm.value.s)
                    /\ IF ~needsSearch'
                       THEN /\ Await("direct", GenerateCall(userQuery.s), generate(userQuery.s))
                            /\ search' = search
                       ELSE /\ Await("extract", GenerateCall(extractPrompt(userQuery.s)),
                                     generate(extractPrompt(userQuery.s)))
                            /\ search' = searchWeb(trim(userQuery.s))
    /\ UNCHANGED <<config, userQuery, extraction, searchQuery, searchResults, nRuns>>

\* shouldSearch() resumes, and run() goes on to the direct answer or the extraction
ClassifyDone ==
    /\ pc = "classify"
    /\ llm.state \in {"returned", "thrown"}
    /\ IF llm.state = "thrown"
       THEN /\ Finish(Throw(llm.value))
            /\ UNCHANGED <<classification, needsSearch, calls, llm>>
       ELSE /\ classification' = llm.value
            /\ IF llm.value.t # "string"
               THEN /\ Finish(Throw(TypeError))
                    /\ UNCHANGED <<needsSearch, calls, llm>>
               ELSE /\ needsSearch' = shouldSearch(llm.value.s)
                    /\ IF ~needsSearch'
                       THEN Await("direct", GenerateCall(userQuery.s), generate(userQuery.s))
                       ELSE Await("extract", GenerateCall(extractPrompt(userQuery.s)),
                                  generate(extractPrompt(userQuery.s)))
    /\ UNCHANGED <<config, userQuery, extraction, searchQuery, searchResults, search, nRuns>>

\* faulty variant: the direct answer is trimmed before it is returned
DirectDoneTrimmed ==
    /\ pc = "direct"
    /\ llm.state \in {"returned", "thrown"}
    /\ Finish(IF llm.state = "thrown" THEN Throw(llm.value)
              ELSE IF llm.value.t = "string" THEN Return(JString(trim(llm.value.s)))
              ELSE Return(llm.value))
    /\ UNCHANGED <<config, locals, userQuery, calls, llm, search, nRuns>>

\* return await this.llm.generate(userQuery)
DirectDone ==
    /\ pc = "direct"
    /\ llm.state \in {"returned", "thrown"}
    /\ Finish(IF llm.state = "thrown" THEN Throw(llm.value) ELSE Return(llm.value))
    /\ UNCHANGED <<config, locals, userQuery, calls, llm, search, nRuns>>

\* generateAnswer(originalQuery, searchResults), to its await or its return
GenerateAnswer(text) ==
    IF isSearchFailure(text)
    THEN /\ Finish(Return(JString(apology(userQuery.s))))
         /\ calls' = calls
         /\ llm' = llm
    ELSE Await("synthesize", ChatCall(answerMessages(userQuery.s, text)),
               chat(answerMessages(userQuery.s, text)))

\* extractSearchQuery() resumes, and run() goes on to the search
ExtractDone ==
    /\ pc = "extract"
    /\ llm.state \in {"returned", "thrown"}
    /\ IF llm.state = "thrown"
       THEN /\ Finish(Throw(llm.value))
            /\ UNCHANGED <<extraction, searchQuery, searchResults, calls, llm, search>>
       ELSE IF llm.value.t # "string"
       THEN /\ Finish(Throw(TypeError))
            /\ extraction' = llm.value
            /\ UNCHANGED <<searchQuery, searchResults, calls, llm, search>>
       ELSE /\ extraction' = llm.value
            /\ searchQuery' = JString(trim(llm.value.s))
            /\ IF isInvalidQuery(searchQuery')
               THEN /\ Finish(Return(JString(ExtractionFailedText)))
                    /\ UNCHANGED <<searchResults, calls, llm, search>>
               ELSE IF isInvalidQuery(JString(trim(searchQuery'.s)))
               THEN \* _call() rejects its argument
                    /\ searchResults' = JString(InvalidSearchQueryText)
                    /\ calls' = Append(calls, SearchCall(trim(searchQuery'.s)))
                    /\ Finish(Return(JString(apology(userQuery.s))))
                    /\ UNCHANGED <<llm, search>>
               ELSE /\ pc' = "search"
                    /\ calls' = Append(calls, SearchCall(trim(searchQuery'.s)))
                    /\ search' = searchWeb(trim(trim(searchQuery'.s)))
                    /\ llm' = LlmIdle
                    /\ UNCHANGED <<searchResults, result>>
    /\ UNCHANGED <<config, userQuery, classification, needsSearch, nRuns>>

\* the error axios rejects with
AxiosError(o) == Error("", o.status, o.data, o.message)

\* searchWeb(): how its try block ends; axios.post() rejects inside it
searchWebTry(o) == IF resolves(o) THEN Return(searchWebResult(o)) ELSE Throw(AxiosError(o))

\* faulty variant: the rejection of the request is thrown on to the caller
searchWebSettledRethrow(o) == searchWebTry(o)

\* searchWeb(): how the call ends; the catch block returns for whatever was thrown
searchWebSettled(o) ==
    IF searchWebTry(o).kind = "throw" THEN Return(searchWebResult(o)) ELSE searchWebTry(o)

\* the search request ends with outcome o: searchWeb() and _call() return, run()
\* goes on to generateAnswer(); neither _call() nor run() catches what searchWeb() throws
SearchResponse(o) ==
    /\ pc = "search"
    /\ search.state = "inflight"
    /\ IF searchWebSettled(o).kind = "throw"
       THEN /\ search' = [search EXCEPT !.state = "thrown", !.reply = o,
                                         !.value = searchWebSettled(o).value]
            /\ Finish(Throw(searchWebSettled(o).value))
            /\ UNCHANGED <<searchResults, calls, llm>>
       ELSE /\ search' = [search EXCEPT !.state = "returned", !.reply = o,
                                         !.value = searchWebSettled(o).value]
            /\ searchResults' = JString(callResult(searchWebSettled(o).value))
            /\ GenerateAnswer(searchResults'.s)
    /\ UNCHANGED <<config, userQuery, classification, needsSearch, extraction, searchQuery, nRuns>>

\* faulty variant: a failed chat() is answered with the apology
SynthesizeDoneApologizes ==
    /\ pc = "synthesize"
    /\ llm.state \in {"returned", "thrown"}
    /\ Finish(IF llm.state = "thrown" THEN Return(JString(apology(userQuery.s)))
              ELSE IF llm.value.t # "string" THEN Throw(TypeError)
              ELSE Return(llm.value))
    /\ UNCHANGED <<config, locals, userQuery, calls, llm, search, nRuns>>

\* faulty variant: a chat() that failed is called once more
SynthesizeDoneRetries ==
    /\ pc = "synthesize"
    /\ llm.state \in {"returned", "thrown"}
    /\ IF llm.state = "thrown" /\ Len(calls) < 5
       THEN Await("synthesize", calls[Len(calls)], chat(llm.messages))
       ELSE /\ Finish(IF llm.state = "thrown" THEN Throw(llm.value)
                      ELSE IF llm.value.t # "string" THEN Throw(TypeError)
                      ELSE Return(llm.value))
            /\ UNCHANGED <<calls, llm>>
    /\ UNCHANGED <<config, locals, userQuery, search, nRuns>>

\* generateAnswer() resumes after chat()
SynthesizeDone ==
    /\ pc = "synthesize"
    /\ llm.state \in {"returned", "thrown"}
    /\ Finish(IF llm.state = "thrown" THEN Throw(llm.value)
              ELSE IF llm.value.t # "string" THEN Throw(TypeError)
              ELSE Return(llm.value))
    /\ UNCHANGED <<config, locals, userQuery, calls, llm, search, nRuns>>

\* the timer of the client's request in flight runs out
LlmRequestTimeout ==
    /\ llm.state \in {"primary", "fallback"}
    /\ llm.requests[Len(llm.requests)].timeout > 0
    /\ IF llm.state = "primary" THEN PrimaryResponse(TimedOut) ELSE FallbackResponse(TimedOut)

\* the timer of the search request in flight runs out
SearchRequestTimeout ==
    /\ search.state = "inflight"
    /\ search.requests[1].timeout > 0
    /\ SearchResponse(TimedOut)

Next ==
    \/ \E q \in Queries : Run(q) /\ UNCHANGED apart
    \/ \E o \in PrimaryOutcomes : PrimaryResponse(o) /\ UNCHANGED apart
    \/ \E o \in FallbackOutcomes : FallbackResponse(o) /\ UNCHANGED apart
    \/ ClassifyDone /\ UNCHANGED apart
    \/ DirectDone /\ UNCHANGED apart
    \/ ExtractDone /\ UNCHANGED apart
    \/ \E o \in SearchOutcomes : SearchResponse(o) /\ UNCHANGED apart
    \/ SynthesizeDone /\ UNCHANGED apart

Spec == Init /\ [][Next]_vars

----------------------------------------------------------------------------
(* The entry points (server.ts, index.ts): the agent is built from process.env. *)

\* process.env: a variable is not set, set to nothing, or set to a text
Environments ==
    [NOSANA_OLLAMA_URL : {JUndefined, JString(<<>>), JString(<<"https://node">>),
                          JString(<<"https://node", "/">>)},
     BRIGHTDATA_API_TOKEN : {JUndefined, JString(<<>>), JString(<<"token">>)},
     NOSANA_MODEL : {JUndefined, JString(<<"llama3">>)}]

\* if (!nosanaUrl || !brightdataToken) process.exit(1)
missingEnv(e) == ~Truthy(e.NOSANA_OLLAMA_URL) \/ ~Truthy(e.BRIGHTDATA_API_TOKEN)

\* new WebSearchAgent(nosanaUrl, brightdataToken): no model argument, the default zone
InitEnv ==
    /\ \E e \in Environments :
          IF missingEnv(e)
          THEN /\ pc = "exited"
               /\ baseUrl = <<>> /\ model = <<>> /\ apiToken = <<>> /\ zone = <<>>
          ELSE /\ pc = "idle"
               /\ baseUrl = normalizeBaseUrl(e.NOSANA_OLLAMA_URL.s)
               /\ model = resolveModel(JUndefined, e.NOSANA_MODEL)
               /\ apiToken = e.BRIGHTDATA_API_TOKEN.s
               /\ zone = <<"serp_api1">>
    /\ NoCallYet
    /\ others = <<>>

SpecEnv == InitEnv /\ [][Next]_vars

----------------------------------------------------------------------------
(* A few inputs, for the specifications that put more than run() together. *)

FewQueries == {JString(<<"q", "?">>), JString(<<"z">>)}

FewPrimaryOutcomes ==
    {Reply(200, Completion(YesBecause)), Reply(200, Completion(<<"k", "w">>)),
     Reply(404, ErrorBody)}

FewFallbackOutcomes == {Reply(200, JObject(Prop1("response", JString(<<"k", "w">>))))}

FewSearchOutcomes == {Reply(200, JObject(Prop1("body", Organic))), Reply(401, ErrorBody)}

----------------------------------------------------------------------------
(* Several callers of run() on the one agent (server.ts): the handlers of
   POST /api/query share `agent`, and each await lets another handler go on. *)

\* the state of one run() invocation: its parameter, its locals, its calls
frame ==
    [pc |-> pc, userQuery |-> userQuery, classification |-> classification,
     needsSearch |-> needsSearch, extraction |-> extraction, searchQuery |-> searchQuery,
     searchResults |-> searchResults, result |-> result, calls |-> calls, llm |-> llm,
     search |-> search, answers |-> answers]

\* a caller that has not called run()
IdleFrame ==
    [pc |-> "idle", userQuery |-> None, classification |-> None, needsSearch |-> FALSE,
     extraction |-> None, searchQuery |-> None, searchResults |-> None, result |-> Pending,
     calls |-> <<>>, llm |-> LlmIdle, search |-> SearchIdle, answers |-> <<>>]

\* faulty variant: userQuery is kept in a field of the shared agent
SwitchSharingQuery(i) ==
    /\ i \in 1..Len(others)
    /\ others' = [others EXCEPT ![i] = frame]
    /\ pc' = others[i].pc
    /\ userQuery' = userQuery
    /\ classification' = others[i].classification
    /\ needsSearch' = others[i].needsSearch
    /\ extraction' = others[i].extraction
    /\ searchQuery' = others[i].searchQuery
    /\ searchResults' = others[i].searchResults
    /\ result' = others[i].result
    /\ calls' = others[i].calls
    /\ llm' = others[i].llm
    /\ search' = others[i].search
    /\ answers' = others[i].answers
    /\ UNCHANGED <<config, nRuns, probe, prev, callers>>

\* the current run() stays suspended at its await (or has ended), and the event
\* loop goes on with the run() of caller i
Switch(i) ==
    /\ i \in 1..Len(others)
    /\ others' = [others EXCEPT ![i] = frame]
    /\ pc' = others[i].pc
    /\ userQuery' = others[i].userQuery
    /\ classification' = others[i].classification
    /\ needsSearch' = others[i].needsSearch
    /\ extraction' = others[i].extraction
    /\ searchQuery' = others[i].searchQuery
    /\ searchResults' = others[i].searchResults
    /\ result' = others[i].result
    /\ calls' = others[i].calls
    /\ llm' = others[i].llm
    /\ search' = others[i].search
    /\ answers' = others[i].answers
    /\ UNCHANGED <<config, nRuns, probe, prev, callers>>

\* a step of the current run(): what it has received is now a, and the first
\* run() to end is put on record when no other had started
Observed(a) ==
    /\ answers' = a
    /\ prev' = IF prev = None /\ nRuns' = 1 /\ pc' = "done"
               THEN [query |-> userQuery', answers |-> a, calls |-> calls',
                     result |-> result']
               ELSE prev
    /\ UNCHANGED <<probe, others, callers>>

InitShared ==
    /\ baseUrl = normalizeBaseUrl(<<"https://node", "/">>)
    /\ model = resolveModel(JUndefined, JString(<<"llama3">>))
    /\ apiToken = <<"token">>
    /\ zone = <<"serp_api1">>
    /\ pc = "idle"
    /\ NoCallYet
    /\ others = <<IdleFrame>>

NextShared ==
    \/ \E q \in FewQueries : Run(q) /\ Observed(<<>>)
    \/ \E o \in FewPrimaryOutcomes : PrimaryResponse(o) /\ Observed(Append(answers, o))
    \/ \E o \in FewFallbackOutcomes : FallbackResponse(o) /\ Observed(Append(answers, o))
    \/ ClassifyDone /\ Observed(answers)
    \/ DirectDone /\ Observed(answers)
    \/ ExtractDone /\ Observed(answers)
    \/ \E o \in FewSearchOutcomes : SearchResponse(o) /\ Observed(Append(answers, o))
    \/ SynthesizeDone /\ Observed(answers)
    \/ \E i \in 1..Len(others) : Switch(i)

SpecShared == InitShared /\ [][NextShared]_vars

----------------------------------------------------------------------------
(* NosanaLLM.testConnection (llm.ts), called between the runs. *)

\* the timeout option of the two GET requests, in ms
ProbeTimeoutMs == 10000

modelsUrl == baseUrl \o <<"/v1/models">>
tagsUrl == baseUrl \o <<"/api/tags">>
ProbePrompt == <<"Say \"OK\" if you can hear me">>

ProbeOutcomes ==
    {Reply(200, JObject(Prop1("data", JArray(<<>>)))), Reply(404, ErrorBody),
     NoReply("Network Error")}

\* testConnection(), up to its first await: GET {base}/v1/models is out
TestConnection ==
    /\ pc \in {"idle", "done"}
    /\ pc' = "models"
    /\ probe' = [requests |-> <<[url |-> modelsUrl, timeout |-> ProbeTimeoutMs]>>,
                 replies |-> <<>>, value |-> "none"]
    /\ UNCHANGED <<config, locals, userQuery, result, calls, llm, search, nRuns,
                   answers, others, prev, callers>>

\* GET /v1/models ends: true, or on to GET {base}/api/tags
ModelsResponse(o) ==
    /\ pc = "models"
    /\ IF resolves(o)
       THEN /\ pc' = "done"
            /\ probe' = [probe EXCEPT !.replies = @ \o <<o>>, !.value = "true"]
       ELSE /\ pc' = "tags"
            /\ probe' = [probe EXCEPT !.replies = @ \o <<o>>,
                                      !.requests = @ \o <<[url |-> tagsUrl,
                                                           timeout |-> ProbeTimeoutMs]>>]
    /\ UNCHANGED <<config, locals, userQuery, result, calls, llm, search, nRuns,
                   answers, others, prev, callers>>

\* GET /api/tags ends: true, or on to generate('Say "OK" if you can hear me')
TagsResponse(o) ==
    /\ pc = "tags"
    /\ IF resolves(o)
       THEN /\ pc' = "done"
            /\ probe' = [probe EXCEPT !.replies = @ \o <<o>>, !.value = "true"]
            /\ llm' = llm
       ELSE /\ pc' = "probe"
            /\ probe' = [probe EXCEPT !.replies = @ \o <<o>>]
            /\ llm' = generate(ProbePrompt)
    /\ UNCHANGED <<config, locals, userQuery, result, calls, search, nRuns,
                   answers, others, prev, callers>>

\* testConnection() resumes after generate(): true when result.substring() works
ProbeDone ==
    /\ pc = "probe"
    /\ llm.state \in {"returned", "thrown"}
    /\ pc' = "done"
    /\ probe' = [probe EXCEPT !.value = IF llm.state = "returned" /\ llm.value.t = "string"
                                        THEN "true" ELSE "false"]
    /\ UNCHANGED <<config, locals, userQuery, result, calls, llm, search, nRuns,
                   answers, others, prev, callers>>

\* The fallback endpoint's outcomes for the operations taken together: the
\* probe's last resort answers false when generate() fails on both endpoints,
\* and when the native endpoint's 200 body has no response field.
OperationsFallbackOutcomes == FewFallbackOutcomes \cup {Reply(500, ErrorBody), Reply(200, JObject(<<>>))}

\* run() and testConnection(), one call after the other
NextOperations ==
    \/ \E q \in FewQueries : Run(q) /\ UNCHANGED apart
    \/ \E o \in FewPrimaryOutcomes : PrimaryResponse(o) /\ UNCHANGED apart
    \/ \E o \in OperationsFallbackOutcomes : FallbackResponse(o) /\ UNCHANGED apart
    \/ ClassifyDone /\ UNCHANGED apart
    \/ DirectDone /\ UNCHANGED apart
    \/ ExtractDone /\ UNCHANGED apart
    \/ \E o \in FewSearchOutcomes : SearchResponse(o) /\ UNCHANGED apart
    \/ SynthesizeDone /\ UNCHANGED apart
    \/ TestConnection
    \/ \E o \in ProbeOutcomes : ModelsResponse(o)
    \/ \E o \in ProbeOutcomes : TagsResponse(o)
    \/ ProbeDone

SpecOperations == Init /\ [][NextOperations]_vars

----------------------------------------------------------------------------
(* generateAnswer(originalQuery, searchResults) on its own (agent.ts): the
   method is given a query and a text, whatever run() would have made them. *)

AnswerTexts ==
    {NoResultsFound, NoResultsFound \o <<" ">>, <<" ">> \o NoResultsFound,
     ErrorPrefix, InvalidSearchQueryText, ErrorPrefix \o <<" blocked">>,
     <<" ">> \o ErrorPrefix \o <<" blocked">>,
     <<"e", "r", "r", "o", "r", ":", " blocked">>,
     <<"E", "r", "r", "o", "r", " processing results.">>,
     <<>>, stringify(Organic)}

\* generateAnswer() is entered: pc = "answer"
InitGenerateAnswer ==
    /\ baseUrl = normalizeBaseUrl(<<"https://node", "/">>)
    /\ model = resolveModel(JUndefined, JString(<<"llama3">>))
    /\ apiToken = <<"token">>
    /\ zone = <<"serp_api1">>
    /\ pc = "answer"
    /\ userQuery \in FewQueries
    /\ searchResults \in {JString(t) : t \in AnswerTexts}
    /\ classification = None /\ needsSearch = TRUE /\ extraction = None /\ searchQuery = None
    /\ result = Pending /\ calls = <<>> /\ llm = LlmIdle /\ search = SearchIdle
    /\ nRuns = 1 /\ probe = ProbeIdle /\ answers = <<>> /\ prev = None /\ others = <<>>
    /\ front = FrontIdle /\ http = HttpIdle /\ cli = CliIdle

\* generateAnswer(), to its await or its return
GenerateAnswerCalled ==
    /\ pc = "answer"
    /\ GenerateAnswer(searchResults.s)
    /\ UNCHANGED <<config, locals, userQuery, search, nRuns>>

NextGenerateAnswer ==
    \/ GenerateAnswerCalled /\ UNCHANGED apart
    \/ \E o \in PrimaryOutcomes : PrimaryResponse(o) /\ UNCHANGED apart
    \/ \E o \in FallbackOutcomes : FallbackResponse(o) /\ UNCHANGED apart
    \/ SynthesizeDone /\ UNCHANGED apart

SpecGenerateAnswer == InitGenerateAnswer /\ [][NextGenerateAnswer]_vars

----------------------------------------------------------------------------
(* The NosanaLLM constructor on its own (llm.ts): the base URL is any text the
   caller gives, a host followed by stray slashes and /api segments. *)

\* stray segments after the host, at most
MaxSegments == 3

RECURSIVE StraySegments(_)
StraySegments(n) ==
    IF n = 0 THEN {<<>>}
    ELSE StraySegments(n - 1)
         \cup {s \o t : s \in StraySegments(n - 1), t \in {<<"/">>, <<"/", "a", "p", "i">>}}

BaseUrlTexts == {<<"https://node">> \o s : s \in StraySegments(MaxSegments)}

\* new NosanaLLM(baseUrl, model), and the agent around it
InitBaseUrl ==
    /\ baseUrl \in {normalizeBaseUrl(u) : u \in BaseUrlTexts}
    /\ model = resolveModel(JUndefined, JString(<<"llama3">>))
    /\ apiToken = <<"token">>
    /\ zone = <<"serp_api1">>
    /\ pc = "idle"
    /\ NoCallYet
    /\ others = <<>>

SpecBaseUrl == InitBaseUrl /\ [][NextOperations]_vars

----------------------------------------------------------------------------
(* One caller, with the outcomes of the HTTP requests of its run() kept in
   `answers`: every request the run has sent is counted. *)

CountedFallbackOutcomes ==
    {Reply(200, JObject(Prop1("response", JString(YesBecause)))),
     Reply(200, JObject(Prop1("response", JString(<<"k", "w">>)))),
     Reply(200, JObject(Prop1("message", JObject(Prop1("content", JString(<<"k", "w">>)))))),
     Reply(404, ErrorBody)}

NextCounted ==
    \/ \E q \in FewQueries : Run(q) /\ Observed(<<>>)
    \/ \E o \in FewPrimaryOutcomes : PrimaryResponse(o) /\ Observed(Append(answers, o))
    \/ \E o \in CountedFallbackOutcomes : FallbackResponse(o) /\ Observed(Append(answers, o))
    \/ ClassifyDone /\ Observed(answers)
    \/ DirectDone /\ Observed(answers)
    \/ ExtractDone /\ Observed(answers)
    \/ \E o \in FewSearchOutcomes : SearchResponse(o) /\ Observed(Append(answers, o))
    \/ SynthesizeDone /\ Observed(answers)

SpecCounted == Init /\ [][NextCounted]_vars

----------------------------------------------------------------------------
(* The React front end (services/frontend/src/App.tsx): the component's state,
   handleSubmit, and the fetch it awaits.  front.sent and front.settled count
   the fetches begun and ended; front.succeeded keeps, oldest first, what was
   asked and answered by those that ended well. *)

\* submissions that send a request, at most
MaxSubmits == 6

\* history.slice(0, 5)
HistoryLimit == 5

ApiQueryUrl == <<"http://localhost:8000", "/api/query">>
PleaseEnter == <<"Please enter a question">>
FailedToGetResponse == <<"Failed to get response">>

\* what may be typed in the input
FrontTexts == {<<>>, <<" ">>, <<"q", "?">>, <<" ", "z", " ">>}

\* the fetch and the response.json() after it: the response with its parsed body,
\* a body that is not JSON, or no response at all
FetchOutcomes ==
    {[kind |-> "response", status |-> 200, data |-> JObject(Prop1("answer", JString(<<"a">>)))],
     [kind |-> "response", status |-> 400, data |-> JObject(Prop1("error", JString(<<"Query is required">>)))],
     [kind |-> "response", status |-> 500, data |-> JObject(Prop1("detail", JString(<<"boom">>)))],
     [kind |-> "response", status |-> 500, data |-> JObject(<<>>)],
     [kind |-> "notJson", status |-> 502, data |-> JUndefined],
     [kind |-> "rejected", status |-> 0, data |-> JUndefined]}

\* response.ok
ok(o) == o.status >= 200 /\ o.status <= 299

\* Array.prototype.slice(0, n)
slice(items, n) == SubSeq(items, 1, IF Len(items) < n THEN Len(items) ELSE n)

\* data.detail || data.error || 'Failed to get response'
errorMessageOf(data) ==
    IF Truthy(Get(data, "detail")) THEN Get(data, "detail")
    ELSE IF Truthy(Get(data, "error")) THEN Get(data, "error")
    ELSE JString(FailedToGetResponse)

\* the message of the error the try block ends with
fetchErrorMessage(o) ==
    IF o.kind = "rejected" THEN JString(<<"Failed to fetch">>)
    ELSE IF o.kind = "notJson" THEN JString(<<"Unexpected token < in JSON">>)
    ELSE errorMessageOf(o.data)

\* onChange: setQuery(e.target.value); the input is disabled while loading
SetQuery(text) ==
    /\ ~front.loading
    /\ front' = [front EXCEPT !.query = text]
    /\ UNCHANGED <<config, locals, pc, userQuery, result, calls, llm, search, nRuns,
                   probe, answers, others, prev, http, cli>>

\* faulty variant: loading is set before the query is looked at
HandleSubmitLoadsFirst ==
    /\ ~front.loading
    /\ Len(trim(front.query)) = 0 \/ front.sent < MaxSubmits
    /\ IF Len(trim(front.query)) = 0
       THEN front' = [front EXCEPT !.error = JString(PleaseEnter), !.loading = TRUE]
       ELSE front' = [front EXCEPT !.error = JString(<<>>), !.result = JString(<<>>),
                                   !.loading = TRUE, !.sent = @ + 1,
                                   !.request = [url |-> ApiQueryUrl, method |-> "POST",
                                                body |-> [query |-> trim(front.query)]]]
    /\ UNCHANGED <<config, locals, pc, userQuery, result, calls, llm, search, nRuns,
                   probe, answers, others, prev, http, cli>>

\* handleSubmit(), to its early return or to its await of fetch(); the button
\* and the input are disabled while loading
HandleSubmit ==
    /\ ~front.loading
    /\ Len(trim(front.query)) = 0 \/ front.sent < MaxSubmits
    /\ IF Len(trim(front.query)) = 0
       THEN front' = [front EXCEPT !.error = JString(PleaseEnter)]
       ELSE front' = [front EXCEPT !.error = JString(<<>>), !.result = JString(<<>>),
                                   !.loading = TRUE, !.sent = @ + 1,
                                   !.request = [url |-> ApiQueryUrl, method |-> "POST",
                                                body |-> [query |-> trim(front.query)]]]
    /\ UNCHANGED <<config, locals, pc, userQuery, result, calls, llm, search, nRuns,
                   probe, answers, others, prev, http, cli>>

\* faulty variant: the new item is put after the others
FetchSettlesAppends(o) ==
    /\ front.sent > front.settled
    /\ IF o.kind = "response" /\ ok(o)
       THEN front' = [front EXCEPT
                !.result = Get(o.data, "answer"),
                !.history = slice(@ \o <<[query |-> trim(front.query),
                                          answer |-> Get(o.data, "answer")]>>, HistoryLimit),
                !.succeeded = Append(@, [query |-> front.request.body.query,
                                         answer |-> Get(o.data, "answer")]),
                !.loading = FALSE, !.settled = @ + 1]
       ELSE front' = [front EXCEPT !.error = fetchErrorMessage(o),
                                   !.loading = FALSE, !.settled = @ + 1]
    /\ UNCHANGED <<config, locals, pc, userQuery, result, calls, llm, search, nRuns,
                   probe, answers, others, prev, http, cli>>

\* handleSubmit() resumes: the fetch has ended with outcome o
FetchSettles(o) ==
    /\ front.sent > front.settled
    /\ IF o.kind = "response" /\ ok(o)
       THEN front' = [front EXCEPT
                !.result = Get(o.data, "answer"),
                !.history = slice(<<[query |-> trim(front.query),
                                     answer |-> Get(o.data, "answer")]>> \o @, HistoryLimit),
                !.succeeded = Append(@, [query |-> front.request.body.query,
                                         answer |-> Get(o.data, "answer")]),
                !.loading = FALSE, !.settled = @ + 1]
       ELSE front' = [front EXCEPT !.error = fetchErrorMessage(o),
                                   !.loading = FALSE, !.settled = @ + 1]
    /\ UNCHANGED <<config, locals, pc, userQuery, result, calls, llm, search, nRuns,
                   probe, answers, others, prev, http, cli>>

NextFrontEnd ==
    \/ \E text \in FrontTexts : SetQuery(text)
    \/ HandleSubmit
    \/ \E o \in FetchOutcomes : FetchSettles(o)

SpecFrontEnd == Init /\ [][NextFrontEnd]_vars

----------------------------------------------------------------------------
(* The HTTP server (server.ts): the handler of POST /api/query, one request
   after the other.  express.json() has made req.body of the JSON sent. *)

RequestBodies ==
    {JObject(<<>>), JObject(Prop1("query", JString(<<>>))), JObject(Prop1("query", JNull)),
     JObject(Prop1("query", JString(<<" ">>))), JObject(Prop1("query", JString(<<"q", "?">>)))}

QueryIsRequired == JObject(Prop1("error", JString(<<"Query is required">>)))

\* JSON.stringify(value): the text without the line breaks and blanks of the indentation
compact(v) == SelectSeq(stringify(v), LAMBDA c : c \notin {"\n", " "})

\* error.message: the text the error was made with
messageOf(e) ==
    IF e.t = "TypeError" THEN TypeErrorMessage
    ELSE <<e.text>>
         \o (IF e.status # 0 THEN <<ToString(e.status), ": ">> ELSE <<>>)
         \o (IF e.data.t # "undefined" THEN compact(e.data) ELSE <<>>)
         \o e.cause

\* res.json({ answer }): a property whose value is undefined is left out
answerBody(v) == IF v.t = "undefined" THEN JObject(<<>>) ELSE JObject(Prop1("answer", v))

\* res.status(500).json({ error: error.message || 'Internal server error' })
errorBody(e) ==
    JObject(Prop1("error", JString(IF Len(messageOf(e)) > 0 THEN messageOf(e)
                                   ELSE <<"Internal server error">>)))

\* faulty variant: only a body without the property is turned down
PostUndefinedOnly(body) ==
    /\ http.state \in {"listening", "answered"}
    /\ pc \in {"idle", "done"}
    /\ IF Get(body, "query").t = "undefined"
       THEN /\ http' = [state |-> "answered", body |-> body,
                        responses |-> <<[status |-> 400, data |-> QueryIsRequired]>>]
            /\ UNCHANGED <<config, locals, pc, userQuery, result, calls, llm, search, nRuns>>
       ELSE /\ http' = [state |-> "handling", body |-> body, responses |-> <<>>]
            /\ Run(Get(body, "query"))
    /\ UNCHANGED <<probe, answers, others, prev, front, cli>>

\* the handler, to its 400 or to its await of agent.run(query)
Post(body) ==
    /\ http.state \in {"listening", "answered"}
    /\ pc \in {"idle", "done"}
    /\ IF ~Truthy(Get(body, "query"))
       THEN /\ http' = [state |-> "answered", body |-> body,
                        responses |-> <<[status |-> 400, data |-> QueryIsRequired]>>]
            /\ UNCHANGED <<config, locals, pc, userQuery, result, calls, llm, search, nRuns>>
       ELSE /\ http' = [state |-> "handling", body |-> body, responses |-> <<>>]
            /\ Run(Get(body, "query"))
    /\ UNCHANGED <<probe, answers, others, prev, front, cli>>

\* the handler resumes: agent.run() has resolved or thrown
Respond ==
    /\ http.state = "handling"
    /\ pc = "done"
    /\ http' = [http EXCEPT
                   !.state = "answered",
                   !.responses = @ \o <<IF result.kind = "return"
                                        THEN [status |-> 200, data |-> answerBody(result.value)]
                                        ELSE [status |-> 500, data |-> errorBody(result.value)]>>]
    /\ UNCHANGED <<config, locals, pc, userQuery, result, calls, llm, search, nRuns,
                   probe, answers, others, prev, front, cli>>

NextServer ==
    \/ \E body \in RequestBodies : Post(body)
    \/ \E o \in FewPrimaryOutcomes : PrimaryResponse(o) /\ UNCHANGED apart
    \/ \E o \in OperationsFallbackOutcomes : FallbackResponse(o) /\ UNCHANGED apart
    \/ ClassifyDone /\ UNCHANGED apart
    \/ DirectDone /\ UNCHANGED apart
    \/ ExtractDone /\ UNCHANGED apart
    \/ \E o \in FewSearchOutcomes : SearchResponse(o) /\ UNCHANGED apart
    \/ SynthesizeDone /\ UNCHANGED apart
    \/ Respond

SpecServer == Init /\ [][NextServer]_vars

----------------------------------------------------------------------------
(* The command line (index.ts): main() and the callback of rl.question.  A
   line typed while no question is pending has no listener and is lost. *)

Exit == <<"e", "x", "i", "t">>

CliLines ==
    {Exit, <<"E", "X", "I", "T">>, <<"E", "x", "i", "t">>, <<" ", "e", "x", "i", "t">>,
     <<"q", "?">>, <<>>}

\* main(), the environment being there: the agent is built and the first question asked
Main ==
    /\ cli.state = "off"
    /\ pc = "idle"
    /\ cli' = [cli EXCEPT !.state = "prompting", !.prompts = @ + 1]
    /\ UNCHANGED <<config, locals, pc, userQuery, result, calls, llm, search, nRuns,
                   probe, answers, others, prev, front, http>>

\* faulty variant: only the lower-case word ends the loop
LineCaseSensitive(text) ==
    /\ cli.state = "prompting"
    /\ IF text = Exit
       THEN /\ cli' = [cli EXCEPT !.state = "closed", !.line = text]
            /\ UNCHANGED <<config, locals, pc, userQuery, result, calls, llm, search, nRuns>>
       ELSE /\ cli' = [cli EXCEPT !.state = "running", !.line = text]
            /\ Run(JString(text))
    /\ UNCHANGED <<probe, answers, others, prev, front, http>>

\* the callback of rl.question, to rl.close() or to its await of agent.run(query)
Line(text) ==
    /\ cli.state = "prompting"
    /\ IF toLowerCase(text) = Exit
       THEN /\ cli' = [cli EXCEPT !.state = "closed", !.line = text]
            /\ UNCHANGED <<config, locals, pc, userQuery, result, calls, llm, search, nRuns>>
       ELSE /\ cli' = [cli EXCEPT !.state = "running", !.line = text]
            /\ Run(JString(text))
    /\ UNCHANGED <<probe, answers, others, prev, front, http>>

\* the callback resumes: the answer or the error is printed, and askQuestion() called
Answered ==
    /\ cli.state = "running"
    /\ pc = "done"
    /\ cli' = [cli EXCEPT !.state = "prompting", !.prompts = @ + 1, !.printed = result]
    /\ UNCHANGED <<config, locals, pc, userQuery, result, calls, llm, search, nRuns,
                   probe, answers, others, prev, front, http>>

NextCli ==
    \/ Main
    \/ \E text \in CliLines : Line(text)
    \/ \E o \in FewPrimaryOutcomes : PrimaryResponse(o) /\ UNCHANGED apart
    \/ \E o \in OperationsFallbackOutcomes : FallbackResponse(o) /\ UNCHANGED apart
    \/ ClassifyDone /\ UNCHANGED apart
    \/ DirectDone /\ UNCHANGED apart
    \/ ExtractDone /\ UNCHANGED apart
    \/ \E o \in FewSearchOutcomes : SearchResponse(o) /\ UNCHANGED apart
    \/ SynthesizeDone /\ UNCHANGED apart
    \/ Answered

SpecCli == Init /\ [][NextCli]_vars

----------------------------------------------------------------------------
(* Vocabulary of the properties, stated without the operators of the model. *)

\* every character of s is white space
AllBlank(s) == \A i \in 1..Len(s) : s[i] \in {" ", "\t", "\n"}

\* s holds the letters y, e, s next to each other, in either case
ContainsYesAnyCase(s) ==
    \E i \in 1..(Len(s) - 2) :
        s[i] \in {"y", "Y"} /\ s[i + 1] \in {"e", "E"} /\ s[i + 2] \in {"s", "S"}

\* run() has called the client operation op
Called(op) == \E i \in 1..Len(calls) : calls[i].op = op

\* nothing has gone to the search provider
SearchUntouched == search.state = "idle" /\ search.requests = <<>>

\* the classification answered, and did not say yes
SaidNo == classification.t = "string" /\ ~ContainsYesAnyCase(classification.s)

----------------------------------------------------------------------------
(* C1: for every query that is empty or whitespace-only, run() ends with the
   invalid-query failure and has called neither the language-model client nor
   the search client; no HTTP request has been issued. *)
C1_BlankQueryRejected ==
    (userQuery.t = "string" /\ AllBlank(userQuery.s)) =>
        /\ pc = "done"
        /\ result = Return(JString(InvalidQueryText))
        /\ calls = <<>>
        /\ llm.state = "idle" /\ llm.requests = <<>>
        /\ SearchUntouched

C1_Witness ==
    /\ pc = "done"
    /\ userQuery.t = "string" /\ Len(userQuery.s) > 0 /\ AllBlank(userQuery.s)
    /\ result.kind = "return"

(* C2: in a run whose classification response does not contain "yes", the
   search client is never invoked and chat() is never called, in any state up
   to the end of the run. *)
C2_NoSearchOnDirectAnswer ==
    SaidNo =>
        /\ ~Called("search") /\ ~Called("chat")
        /\ SearchUntouched
        /\ llm.op # "chat"
        /\ pc \in {"direct", "done"}

C2_Witness ==
    /\ pc = "done"
    /\ classification = JString(NotNeeded)
    /\ result.kind = "return"

(* C3: when the classification says no, run() makes exactly one further
   language-model call, generate() with the caller's query unmodified, and its
   outcome is that call's outcome: the value returned, verbatim. *)
C3_DirectAnswerVerbatim ==
    SaidNo =>
        /\ Len(calls) = 2
        /\ calls[1].op = "generate"
        /\ calls[2] = GenerateCall(userQuery.s)
        /\ llm.op = "generate" /\ llm.prompt = userQuery.s
        /\ pc = "direct" => result = Pending
        /\ pc = "done" =>
              \/ llm.state = "returned" /\ result = Return(llm.value)
              \/ llm.state = "thrown" /\ result = Throw(llm.value)

C3_Witness ==
    /\ pc = "done"
    /\ SaidNo
    /\ userQuery = JString(<<" ", "q", "?", " ">>)
    /\ result = Return(JString(<<" ", "k", "w", " ">>))

(* C4: shouldSearch is true exactly when the response holds "yes" in any letter
   case: "Yes, because..." and "yesterday" go to the extraction, "No." and
   "Not needed" go to the direct answer. *)
C4_ShouldSearchSubstringYes ==
    classification.t = "string" =>
        /\ needsSearch = ContainsYesAnyCase(classification.s)
        /\ classification.s \in {YesBecause, Yesterday} =>
              needsSearch /\ calls[2] = GenerateCall(extractPrompt(userQuery.s))
        /\ classification.s \in {NoDot, NotNeeded} =>
              ~needsSearch /\ calls[2] = GenerateCall(userQuery.s)

C4_Witness ==
    /\ pc = "extract"
    /\ classification = JString(Yesterday)
    /\ needsSearch

(* C5: if the extraction response is empty after trimming, run() ends with the
   extraction failure and neither the search client nor chat() is invoked; the
   search client is never given an empty or whitespace-only query. *)
C5_EmptyExtractionNeverSearched ==
    /\ (extraction.t = "string" /\ AllBlank(extraction.s)) =>
          /\ pc = "done"
          /\ result = Return(JString(ExtractionFailedText))
          /\ ~Called("search") /\ ~Called("chat")
          /\ SearchUntouched
    /\ \A i \in 1..Len(calls) : calls[i].op = "search" => ~AllBlank(calls[i].query)
    /\ search.state # "idle" => ~AllBlank(search.query)

C5_Witness ==
    /\ pc = "done"
    /\ extraction.t = "string" /\ Len(extraction.s) > 0 /\ AllBlank(extraction.s)

\* the search request failed, or its body is empty
SearchFailed(o) ==
    \/ o.kind # "response"
    \/ o.status < 200 \/ o.status >= 300
    \/ o.data \in {JString(<<>>), JNull}

(* C6: when the search request fails (HTTP 401, another error status, an
   empty body, no response), run() returns the fixed apology, which quotes the
   original query, and chat() is never called. *)
C6_FailedSearchApologizes ==
    (search.state = "returned" /\ SearchFailed(search.reply)) =>
        /\ pc = "done"
        /\ result = Return(JString(apology(userQuery.s)))
        /\ includes(result.value.s, userQuery.s)
        /\ ~Called("chat")
        /\ llm.op # "chat"

C6_Witness ==
    /\ pc = "done"
    /\ search.state = "returned"
    /\ search.reply.kind = "response" /\ search.reply.status = 401
    /\ result.kind = "return"

\* t is s without the white space at its two ends
IsTrimOf(t, s) ==
    \E i \in 1..(Len(s) + 1) : \E j \in 0..Len(s) :
        /\ t = SubSeq(s, i, j)
        /\ AllBlank(SubSeq(s, 1, i - 1)) /\ AllBlank(SubSeq(s, j + 1, Len(s)))
        /\ Len(t) > 0 => ~AllBlank(<<t[1]>>) /\ ~AllBlank(<<t[Len(t)]>>)

\* the search provider answered 200 with data to show
FoundResults ==
    /\ search.state = "returned"
    /\ search.reply.kind = "response" /\ search.reply.status = 200
    /\ search.reply.data \in {JObject(Prop1("body", Organic)),
                              JObject(Prop1("status_code", JString(<<"200">>)))}

\* the four client calls of the search path, in order
SearchPathCalls ==
    /\ Len(calls) = 4
    /\ calls[1] = GenerateCall(classifyPrompt(userQuery.s))
    /\ includes(calls[1].prompt, userQuery.s)
    /\ calls[2] = GenerateCall(extractPrompt(userQuery.s))
    /\ includes(calls[2].prompt, userQuery.s)
    /\ calls[3].op = "search" /\ IsTrimOf(calls[3].query, extraction.s)
    /\ search.query = calls[3].query
    /\ calls[4].op = "chat" /\ Len(calls[4].messages) = 2
    /\ calls[4].messages[1].role = "system"
    /\ calls[4].messages[2] =
          [role |-> "user", content |-> answerPrompt(userQuery.s, searchResults.s)]
    /\ includes(calls[4].messages[2].content, userQuery.s)
    /\ llm.op = "chat" /\ llm.messages = calls[4].messages

(* C7: on the search path with a non-empty search result, run() calls, in this
   order, generate(classification prompt), generate(extraction prompt),
   search(trimmed extraction response) and chat([system, user message built
   from the original query and the serialized results]); its outcome is the
   outcome of chat(), the returned text verbatim. *)
C7_SearchPathCallOrder ==
    FoundResults =>
        /\ SearchPathCalls
        /\ pc \in {"synthesize", "done"}
        /\ pc = "done" =>
              \/ llm.state = "returned" /\ result = Return(llm.value)
              \/ llm.state = "thrown" /\ result = Throw(llm.value)

\* the same, for the runs in which chat() returned a string or threw
C7_SearchPathCallOrderOnText ==
    (FoundResults /\ ~(llm.state = "returned" /\ llm.value.t # "string")) =>
        /\ SearchPathCalls
        /\ pc \in {"synthesize", "done"}
        /\ pc = "done" =>
              \/ llm.state = "returned" /\ result = Return(llm.value)
              \/ llm.state = "thrown" /\ result = Throw(llm.value)

\* the primary request of the call was answered 404 or 405
PrimaryUnsupported ==
    /\ Len(llm.replies) >= 1
    /\ llm.replies[1].kind = "response" /\ llm.replies[1].status \in {404, 405}

(* C8: when the primary POST to {base}/v1/chat/completions is answered 404 or
   405, exactly one fallback request is issued, to {base}/api/generate for
   generate() and to {base}/api/chat for chat(), and what the call returns is
   the content read from the fallback response. *)
C8_FallbackOn404Or405 ==
    PrimaryUnsupported =>
        /\ Len(llm.requests) = 2
        /\ llm.requests[1].url = baseUrl \o <<"/v1/chat/completions">>
        /\ llm.requests[2].url =
              baseUrl \o (IF llm.op = "generate" THEN <<"/api/generate">> ELSE <<"/api/chat">>)
        /\ llm.state \in {"fallback", "returned", "thrown"}
        /\ llm.state = "fallback" <=> Len(llm.replies) = 1
        /\ llm.state = "returned" =>
              /\ llm.replies[2].kind = "response" /\ llm.replies[2].status = 200
              /\ llm.value = IF llm.op = "generate"
                             THEN Get(llm.replies[2].data, "response")
                             ELSE Get(Get(llm.replies[2].data, "message"), "content")
        /\ \A c \in LLMTexts :
              /\ (/\ llm.op = "generate" /\ Len(llm.replies) = 2
                  /\ llm.replies[2] = Reply(200, JObject(Prop1("response", JString(c)))))
                 => llm.state = "returned" /\ llm.value = JString(c)
              /\ (/\ llm.op = "chat" /\ Len(llm.replies) = 2
                  /\ llm.replies[2] =
                        Reply(200, JObject(Prop1("message", JObject(Prop1("content", JString(c)))))))
                 => llm.state = "returned" /\ llm.value = JString(c)

C8_Witness ==
    /\ llm.op = "chat"
    /\ llm.state = "returned"
    /\ PrimaryUnsupported /\ llm.replies[1].status = 405
    /\ llm.value = JString(<<"k", "w">>)

\* a body with every field of the access path
UsableBody(d) == \E c \in LLMTexts : d = Completion(c)

\* the primary request failed, and not with 404 or 405
PrimaryFailedOtherwise ==
    /\ Len(llm.replies) >= 1
    /\ \/ llm.replies[1].kind \in {"noResponse", "setup"}
       \/ /\ llm.replies[1].kind = "response"
          /\ \/ llm.replies[1].status \notin (200..299) \cup {404, 405}
             \/ llm.replies[1].status \in 200..299 /\ ~UsableBody(llm.replies[1].data)

(* C9: for every outcome of the primary request other than 404/405 (another
   error status, no response, a set-up failure, a 200 whose body is unusable)
   generate() and chat() issue no fallback request and fail with an error. *)
C9_NoFallbackOtherwise ==
    PrimaryFailedOtherwise =>
        /\ Len(llm.requests) = 1 /\ Len(llm.replies) = 1
        /\ llm.state = "thrown"
        /\ llm.value.t = "Error"

\* the same, but for the 200 whose body lacks only the content field
C9_NoFallbackUnlessContentMissing ==
    (PrimaryFailedOtherwise /\ completionContent(llm.replies[1].data) # JUndefined) =>
        /\ Len(llm.requests) = 1 /\ Len(llm.replies) = 1
        /\ llm.state = "thrown"
        /\ llm.value.t = "Error"

(* C10: one generate() or chat() call issues at most two HTTP requests, and
   exactly one when the primary succeeds; when the fallback request fails, also
   with 404 or 405, the call fails and no third request is sent. *)
C10_AtMostTwoRequests ==
    /\ Len(llm.requests) <= 2
    /\ Len(llm.replies) <= Len(llm.requests)
    /\ llm.state \in {"primary", "fallback"} <=> Len(llm.replies) < Len(llm.requests)
    /\ (Len(llm.replies) >= 1 /\ llm.replies[1].kind = "response"
            /\ llm.replies[1].status \in 200..299)
          => Len(llm.requests) = 1 /\ llm.state \in {"returned", "thrown"}
    /\ (Len(llm.replies) = 2
            /\ ~(llm.replies[2].kind = "response" /\ llm.replies[2].status \in 200..299))
          => llm.state = "thrown" /\ Len(llm.requests) = 2

C10_Witness ==
    /\ llm.op = "generate"
    /\ llm.state = "thrown"
    /\ Len(llm.replies) = 2 /\ llm.replies[2].kind = "response" /\ llm.replies[2].status = 404
    /\ Len(llm.requests) = 2

\* what the call reads from the body of its n-th response: the end of the access path
ExpectedText(op, n, d) ==
    IF n = 1 THEN Get(Get(First(Get(d, "choices")), "message"), "content")
    ELSE IF op = "generate" THEN Get(d, "response")
    ELSE Get(Get(d, "message"), "content")

\* the call's last request was answered 2xx, and the body lacks a field of the path
SuccessLacksField ==
    /\ Len(llm.replies) >= 1
    /\ llm.replies[Len(llm.replies)].kind = "response"
    /\ llm.replies[Len(llm.replies)].status \in 200..299
    /\ ExpectedText(llm.op, Len(llm.replies), llm.replies[Len(llm.replies)].data).t # "string"

(* C11: whenever a 2xx response, primary or fallback, lacks a field of the
   access path (choices, choices[0], message, content, response), generate()
   and chat() throw an error; what they return is always a string, never
   undefined. *)
C11_MalformedSuccessRaises ==
    /\ SuccessLacksField => llm.state = "thrown" /\ llm.value.t = "Error"
    /\ llm.state = "returned" => llm.value.t = "string"

\* the same, but for the bodies that lack only the last field of the path
C11_MalformedSuccessRaisesUnlessLastField ==
    (SuccessLacksField
        /\ ExpectedText(llm.op, Len(llm.replies), llm.replies[Len(llm.replies)].data) = TypeError)
      => llm.state = "thrown" /\ llm.value.t = "Error"

\* the search request has ended, in whatever way
SearchRequestEnded == search.state \notin {"idle", "inflight"}

(* C12: searchWeb never raises: for every outcome of its HTTP request (a 2xx
   with or without a body, an error status, no response) the call ends by
   returning a value, from which _call() makes the text run() goes on with;
   when such a run throws, the error comes from chat(), not from the search. *)
C12_SearchWebNeverRaises ==
    /\ search.state # "thrown"
    /\ SearchRequestEnded =>
          /\ search.state = "returned"
          /\ search.value.t \in {"object", "array", "string"}
          /\ searchResults.t = "string"
          /\ result.kind = "throw" => llm.op = "chat" /\ result.value # AxiosError(search.reply)

C12_Witness ==
    /\ search.state = "returned"
    /\ search.reply.kind = "noResponse"
    /\ search.value = JObject(<<>>)
    /\ pc = "done"

\* the search request failed otherwise than with 401
FailedNot401(o) == SearchFailed(o) /\ ~(o.kind = "response" /\ o.status = 401)

(* C13: when the search provider answers 401, searchWeb returns a value that
   tells an authentication failure: a value it returns for no other failure
   (another error status, an empty body, no response). *)
C13_Unauthorized401Distinguishable ==
    (/\ SearchRequestEnded
     /\ search.reply.kind = "response" /\ search.reply.status = 401)
    => \A o \in SearchOutcomes : FailedNot401(o) => searchWebSettled(o).value # search.value

(* C14: once a generate() or chat() call of run() has thrown, at whatever stage,
   the one step run() takes is to end with that error thrown to its caller:
   it makes no further client call and sends no search request. *)
C14_LlmFailurePropagates ==
    [][(llm.state = "thrown" /\ pc # "done") =>
          /\ pc' = "done"
          /\ result' = Throw(llm.value)
          /\ calls' = calls /\ llm' = llm /\ search' = search]_vars

C14_Witness ==
    /\ pc = "done"
    /\ llm.state = "thrown" /\ llm.op = "generate"
    /\ needsSearch /\ Len(calls) = 2
    /\ result = Throw(llm.value)
    /\ result.value.text = "No response from Nosana: "

\* HTTP requests of the run that are sent and not yet answered
InFlight ==
    (Len(llm.requests) - Len(llm.replies))
    + (IF search.state = "inflight" THEN Len(search.requests) ELSE 0)

(* C17: within one run() at most one upstream request is outstanding, and the
   calls are issued in the order classify, extract (or the direct answer),
   search, synthesize: each call is in the list only once the response of the
   stage before it has been received. *)
C17_OneCallAtATimeInOrder ==
    /\ InFlight <= 1
    /\ InFlight = 1 <=> pc \in {"classify", "direct", "extract", "search", "synthesize"}
                          /\ llm.state \notin {"returned", "thrown"}
    /\ Len(calls) <= 4
    /\ pc = "classify" => Len(calls) = 1
    /\ pc \in {"direct", "extract"} => Len(calls) = 2
    /\ pc = "search" => Len(calls) = 3
    /\ pc = "synthesize" => Len(calls) = 4
    /\ Len(calls) >= 1 => calls[1] = GenerateCall(classifyPrompt(userQuery.s))
    /\ Len(calls) >= 2 =>
          /\ classification.t = "string"
          /\ calls[2] = IF ContainsYesAnyCase(classification.s)
                        THEN GenerateCall(extractPrompt(userQuery.s))
                        ELSE GenerateCall(userQuery.s)
    /\ Len(calls) >= 3 =>
          /\ ContainsYesAnyCase(classification.s)
          /\ extraction.t = "string"
          /\ calls[3].op = "search" /\ IsTrimOf(calls[3].query, extraction.s)
    /\ Len(calls) = 4 =>
          /\ search.state = "returned"
          /\ searchResults.t = "string"
          /\ calls[4].op = "chat"

C17_Witness ==
    /\ pc = "synthesize"
    /\ Len(calls) = 4
    /\ llm.state = "fallback"
    /\ InFlight = 1

\* a step that waits for no upstream: run() resumes after a call that has ended,
\* or the timer of the request in flight runs out
StepWithoutUpstream ==
    \/ ClassifyDone \/ DirectDone \/ ExtractDone \/ SynthesizeDone
    \/ LlmRequestTimeout \/ SearchRequestTimeout

(* C18: a run() in progress can always take a step that needs no answer of an
   upstream, so that it ends even when an upstream never answers: whenever a
   request is in flight, the language-model primary or fallback request or
   the search request, its timeout is due to end it. *)
C18_EveryRequestTimesOut ==
    pc \in {"classify", "direct", "extract", "search", "synthesize"} =>
        ENABLED StepWithoutUpstream

\* the same, for the stages that await the language-model client
C18_EveryLlmRequestTimesOut ==
    pc \in {"classify", "direct", "extract", "synthesize"} => ENABLED StepWithoutUpstream

(* C20: the configuration fixed by the constructors (the normalized base URL,
   the model name, the API token, the zone) is the same before and after
   every step of run(), generate(), chat(), searchWeb() and testConnection(),
   whether the step succeeds or fails. *)
C20_ConfigurationImmutable == [][config' = config]_vars

C20_Witness ==
    /\ pc = "done"
    /\ probe.value = "false" /\ Len(probe.requests) = 2
    /\ nRuns >= 1 /\ search.state = "returned" /\ search.reply.status = 401
    /\ config = <<<<"https://node">>, <<"llama3">>, <<"token">>, <<"serp_api1">>>>

\* every value of the configuration is there
ConfigComplete ==
    /\ baseUrl # <<>>
    /\ model \notin {<<>>, <<"undefined">>}
    /\ apiToken # <<>>
    /\ zone # <<>>

(* C19: with a required configuration value absent (the base URL, the model
   name, the API token, the zone) no agent is built: the program has stopped
   before the first run() and no run() ever starts. *)
C19_IncompleteConfigNeverRuns ==
    ~ConfigComplete => pc = "exited" /\ nRuns = 0

\* the same, for the base URL, the token and the zone alone
C19_UrlTokenZoneRequired ==
    (baseUrl = <<>> \/ apiToken = <<>> \/ zone = <<>>) => pc = "exited" /\ nRuns = 0

\* a is the beginning of b
IsPrefix(a, b) == Len(a) <= Len(b) /\ SubSeq(b, 1, Len(a)) = a

\* the run() invocations there are: the current one, and the other callers'
Invocations == {frame} \cup {others[i] : i \in 1..Len(others)}

\* invocation f was given the query of the run on record and, as far as it
\* got, the answers that run was given
SameInputs(f) ==
    /\ prev # None
    /\ f.pc \notin {"idle", "exited"}
    /\ f.userQuery = prev.query
    /\ IsPrefix(f.answers, prev.answers)

\* invocation f has made the calls of the run on record, as far as it got, and
\* ends where that run ended, with its result
SameOutputs(f) ==
    /\ IsPrefix(f.calls, prev.calls)
    /\ f.pc = "done" =>
          /\ f.answers = prev.answers
          /\ f.calls = prev.calls
          /\ f.result = prev.result

(* C15: a second run() with the query of the first, started after the first
   has ended and given the same answers by the upstreams, makes the same
   calls with the same arguments in the same order and ends with the same
   result. *)
C15_SecondRunRepeatsFirst ==
    (nRuns = 2 /\ prev # None) =>
        \A f \in Invocations : SameInputs(f) => SameOutputs(f)

C15_Witness ==
    /\ nRuns = 2 /\ prev # None
    /\ pc = "done"
    /\ SameInputs(frame)
    /\ Len(calls) = 4 /\ calls = prev.calls
    /\ result.kind = "return" /\ result = prev.result

(* C16: with run() invocations of several callers interleaved on the one
   agent, each invocation makes the calls and ends with the result of the run
   that had the agent to itself, given the same query and the same answers;
   two invocations with the same query and answers end alike. *)
C16_InterleavedRunsIndependent ==
    /\ \A f \in Invocations : SameInputs(f) => SameOutputs(f)
    /\ \A f, g \in Invocations :
          (/\ f.pc = "done" /\ g.pc = "done"
           /\ f.userQuery = g.userQuery /\ f.answers = g.answers)
          => f.calls = g.calls /\ f.result = g.result

C16_Witness ==
    /\ nRuns = 3 /\ prev # None
    /\ pc = "synthesize" /\ others[1].pc = "extract"
    /\ SameInputs(frame) /\ SameInputs(others[1])
    /\ Len(answers) = 3 /\ Len(others[1].answers) = 1
    /\ prev.result.kind = "return"

\* s is the no-results sentinel, to the letter
IsNoResultsSentinel(s) == s = <<"No results found.">>

\* the first six characters of s are E r r o r :
BeginsWithErrorColon(s) ==
    /\ Len(s) >= 6
    /\ s[1] = "E" /\ s[2] = "r" /\ s[3] = "r" /\ s[4] = "o" /\ s[5] = "r" /\ s[6] = ":"

\* the apology: fixed but for the query it quotes, and naming a search error
ApologyFor(q) ==
    <<"I couldn't find information about \"">> \o q
    \o <<"\" due to a search error. Please try rephrasing your question.">>

\* generateAnswer() has been given the text of searchResults and has acted on it
AnswerUnderWay == searchResults.t = "string" /\ pc # "answer"

(* C21: generateAnswer calls chat() exactly when the retrieval text is neither
   the sentinel "No results found." to the letter nor a text that begins with
   "Error:"; for those two it makes no model call and returns the fixed
   apology, which quotes the original query and names the search error. *)
C21_ChatUnlessSentinelOrError ==
    AnswerUnderWay =>
        IF IsNoResultsSentinel(searchResults.s) \/ BeginsWithErrorColon(searchResults.s)
        THEN /\ ~Called("chat") /\ llm.op # "chat" /\ llm.requests = <<>>
             /\ pc = "done"
             /\ result = Return(JString(ApologyFor(userQuery.s)))
        ELSE /\ Called("chat") /\ llm.op = "chat"
             /\ calls[Len(calls)].messages[2].content =
                   answerPrompt(userQuery.s, searchResults.s)
             /\ pc \in {"synthesize", "done"}

C21_Witness ==
    /\ pc = "done"
    /\ searchResults = JString(<<"E", "r", "r", "o", "r", ":", " blocked">>)
    /\ result = Return(JString(ApologyFor(userQuery.s)))
    /\ calls = <<>>

\* _call() got from searchWeb() a value with keys that JSON.stringify threw on
SerializationFailed ==
    /\ search.state = "returned"
    /\ Truthy(search.value) /\ KeyCount(search.value) > 0
    /\ stringify(search.value) = TypeError

(* C22: when the serialization of the search result fails in the retrieve
   stage, run() does not throw and ends with a processing failure: the text
   the retrieve stage made of the failure is never given to chat() as search
   results. *)
C22_SerializationFailureEndsRun ==
    SerializationFailed =>
        /\ pc = "done"
        /\ result.kind = "return"
        /\ ~Called("chat") /\ llm.op # "chat"

\* the same, as far as the retrieve stage goes: the failure is made a text, not thrown
C22_SerializationFailureIsText ==
    SerializationFailed =>
        /\ searchResults = JString(<<"E", "r", "r", "o", "r", " processing results.">>)
        /\ pc \in {"synthesize", "done"}
        /\ result.kind = "throw" => llm.op = "chat"

\* an object with an `error` property
IsErrorMarker(v) == v.t = "object" /\ \E i \in 1..Len(v.props) : v.props[i].k = "error"

\* null, undefined, or an object with no property
IsNothing(v) == v.t \in {"null", "undefined"} \/ (v.t = "object" /\ v.props = <<>>)

(* C23: whenever the search client returns an error marker {error: ...} or
   nothing (null, undefined, an empty object), the text the retrieve stage
   hands on is a sentinel, "No results found." or a text beginning with
   "Error:": never the serialized marker, never the empty text. *)
C23_MarkerOrNothingBecomesSentinel ==
    (search.state = "returned" /\ (IsErrorMarker(search.value) \/ IsNothing(search.value))) =>
        /\ searchResults.t = "string"
        /\ IsNoResultsSentinel(searchResults.s) \/ BeginsWithErrorColon(searchResults.s)
        /\ searchResults.s # <<>>
        /\ ~includes(searchResults.s, <<"error">>)

\* the same, for the client that returned nothing
C23_NothingBecomesSentinel ==
    (search.state = "returned" /\ IsNothing(search.value)) =>
        /\ searchResults = JString(<<"No results found.">>)
        /\ ~Called("chat")

\* the last characters of s are those of suffix
EndsWith(s, suffix) ==
    Len(s) >= Len(suffix) /\ SubSeq(s, Len(s) - Len(suffix) + 1, Len(s)) = suffix

\* u without one "/" or one "/api" at its end, if it has one
WithoutOneSegment(u) ==
    IF EndsWith(u, <<"/">>) THEN SubSeq(u, 1, Len(u) - 1)
    ELSE IF EndsWith(u, <<"/", "a", "p", "i">>) THEN SubSeq(u, 1, Len(u) - 4)
    ELSE u

(* C24: whatever base URL the constructor is given, the base URL it stores
   ends neither in "/" nor in "/api": there is nothing left to strip, and
   normalizing the stored URL again leaves it as it is. *)
C24_StoredBaseUrlNormalized ==
    pc # "exited" =>
        /\ ~EndsWith(baseUrl, <<"/">>)
        /\ ~EndsWith(baseUrl, <<"/", "a", "p", "i">>)
        /\ WithoutOneSegment(baseUrl) = baseUrl

\* d is an object with a property k
HasField(d, k) == d.t = "object" /\ \E i \in 1..Len(d.props) : d.props[i].k = k

\* the value of the property k of d
FieldOf(d, k) == d.props[CHOOSE i \in 1..Len(d.props) : d.props[i].k = k].v

\* the search request was answered 2xx
SearchSucceeded ==
    /\ search.state = "returned"
    /\ search.reply.kind = "response" /\ search.reply.status \in 200..299

(* C25: on a 2xx response searchWeb returns the value of the field `body` of
   the response whenever the response has that field, and returns the whole
   response only when it has no such field. *)
C25_BodyReturnedWheneverPresent ==
    SearchSucceeded =>
        /\ HasField(search.reply.data, "body") =>
              search.value = FieldOf(search.reply.data, "body")
        /\ search.value = search.reply.data => ~HasField(search.reply.data, "body")

\* the same, for the responses whose `body` is neither empty text nor null
C25_FilledBodyReturned ==
    (/\ SearchSucceeded
     /\ HasField(search.reply.data, "body")
     /\ FieldOf(search.reply.data, "body") \notin {JString(<<>>), JNull})
    => search.value = FieldOf(search.reply.data, "body")

(* C26: chat(messages) sends the message sequence it was given, the same
   elements in the same order, nothing added, dropped or rewritten, in its
   primary request and in its fallback request when there is one. *)
C26_ChatForwardsMessages ==
    llm.op = "chat" =>
        /\ llm.messages = calls[Len(calls)].messages
        /\ Len(llm.messages) = 2
        /\ llm.messages[1].role = "system" /\ llm.messages[2].role = "user"
        /\ \A i \in 1..Len(llm.requests) : llm.requests[i].body.messages = llm.messages

C26_Witness ==
    /\ llm.op = "chat"
    /\ llm.state = "returned"
    /\ Len(llm.requests) = 2
    /\ llm.requests[2].url = baseUrl \o <<"/api/chat">>
    /\ llm.requests[2].body.messages[1].role = "system"

\* the fallback request of generate() was answered 2xx
GenerateFallbackSucceeded ==
    /\ llm.op = "generate"
    /\ Len(llm.replies) = 2
    /\ llm.replies[2].kind = "response" /\ llm.replies[2].status \in 200..299

(* C27: in the fallback of generate(), the text returned is the field
   `response` of the reply of /api/generate when the reply has it, and the
   nested field message.content of the reply otherwise. *)
C27_FallbackReadsResponseOrMessage ==
    (/\ GenerateFallbackSucceeded
     /\ \/ HasField(llm.replies[2].data, "response")
        \/ Get(Get(llm.replies[2].data, "message"), "content").t = "string") =>
        /\ llm.state = "returned"
        /\ llm.value = IF HasField(llm.replies[2].data, "response")
                       THEN FieldOf(llm.replies[2].data, "response")
                       ELSE Get(Get(llm.replies[2].data, "message"), "content")

\* the same, for the replies that have the field `response`
C27_FallbackReadsResponse ==
    (GenerateFallbackSucceeded /\ HasField(llm.replies[2].data, "response")) =>
        /\ llm.state = "returned"
        /\ llm.value = FieldOf(llm.replies[2].data, "response")

\* the last request of the call was answered with an error status, not 404 or 405
HttpErrorStatus ==
    /\ Len(llm.replies) >= 1
    /\ llm.replies[Len(llm.replies)].kind = "response"
    /\ llm.replies[Len(llm.replies)].status \notin (200..299) \cup {404, 405}

\* the message of error e holds the status st
CarriesStatus(e, st) == e.status = st \/ includes(e.cause, <<ToString(st)>>)

\* the message of error e holds the response body d
CarriesBody(e, d) == e.data = d

(* C28: for generate() and for chat(), an HTTP error status other than 404
   and 405, of the primary or of the fallback endpoint, surfaces as an error
   that carries the status code and the raw response body, both. *)
C28_HttpErrorCarriesStatusAndBody ==
    HttpErrorStatus =>
        /\ llm.state = "thrown"
        /\ llm.value.t = "Error"
        /\ CarriesStatus(llm.value, llm.replies[Len(llm.replies)].status)
        /\ CarriesBody(llm.value, llm.replies[Len(llm.replies)].data)

\* the same, for the primary request of generate()
C28_GeneratePrimaryCarriesBoth ==
    (HttpErrorStatus /\ llm.op = "generate" /\ Len(llm.replies) = 1) =>
        /\ llm.state = "thrown"
        /\ llm.value.text = "Nosana API Error "
        /\ CarriesStatus(llm.value, llm.replies[1].status)
        /\ CarriesBody(llm.value, llm.replies[1].data)

\* the failure kind of the primary request's outcome o
FailureKind(o) ==
    IF o.kind = "noResponse" THEN "no response"
    ELSE IF o.kind = "setup" THEN "not sent"
    ELSE IF o.status \in 200..299 THEN "malformed"
    ELSE "status"

\* the call in progress, had its primary request ended with outcome o
HadPrimaryEndedWith(o) ==
    IF llm.op = "generate" THEN generateOnPrimary(llm, o) ELSE chatOnPrimary(llm, o)

\* the call has thrown on the outcome of its primary request
ThrownOnPrimary == llm.state = "thrown" /\ Len(llm.replies) = 1

(* C29: the four failure kinds of the client (an HTTP error status, no
   response received, a failure before the request was sent, a 2xx whose
   body lacks the expected shape) reach the caller of generate() and of
   chat() as errors that tell the kinds apart: two failures of different
   kinds are never reported in the same words, and a malformed 2xx body
   is never reported as a request that could not be made. *)
C29_FailureKindsDistinguishable ==
    ThrownOnPrimary =>
        \A o \in PrimaryOutcomes :
            (/\ HadPrimaryEndedWith(o).state = "thrown"
             /\ FailureKind(o) # FailureKind(llm.replies[1]))
            => HadPrimaryEndedWith(o).value.text # llm.value.text

\* the same, for the error status against the three other kinds
C29_StatusErrorDistinguishable ==
    (ThrownOnPrimary /\ FailureKind(llm.replies[1]) = "status") =>
        \A o \in PrimaryOutcomes :
            (/\ HadPrimaryEndedWith(o).state = "thrown"
             /\ FailureKind(o) # "status")
            => HadPrimaryEndedWith(o).value.text # llm.value.text

\* the calls of the run to operation op
CallsOf(op) == {i \in 1..Len(calls) : calls[i].op = op}

\* HTTP requests the run has sent to the language model: those answered, and
\* the one in flight
LlmRequestsSent ==
    Len(answers) - (IF SearchRequestEnded THEN 1 ELSE 0)
    + (Len(llm.requests) - Len(llm.replies))

(* C30: in one run() each stage is entered at most once: at most three calls
   of the language-model client (two generate(), one chat()) and one search
   call, hence at most six HTTP requests to the language model, the protocol
   fallbacks counted, and one to the search provider. *)
C30_EachStageAtMostOnce ==
    /\ Cardinality(CallsOf("generate")) + Cardinality(CallsOf("chat")) <= 3
    /\ Cardinality(CallsOf("generate")) <= 2
    /\ Cardinality(CallsOf("chat")) <= 1
    /\ Cardinality(CallsOf("search")) <= 1
    /\ \A i, j \in 1..Len(calls) : i # j => calls[i] # calls[j]
    /\ LlmRequestsSent <= 6
    /\ Len(search.requests) <= 1

C30_Witness ==
    /\ pc = "done"
    /\ Cardinality(CallsOf("generate")) = 2 /\ Cardinality(CallsOf("chat")) = 1
    /\ Cardinality(CallsOf("search")) = 1
    /\ LlmRequestsSent = 6 /\ Len(answers) = 7
    /\ Len(search.requests) = 1
    /\ result.kind = "return"

\* the items of log, the latest first
RECURSIVE LatestFirst(_)
LatestFirst(log) ==
    IF log = <<>> THEN <<>> ELSE <<log[Len(log)]>> \o LatestFirst(SubSeq(log, 1, Len(log) - 1))

\* the first n items of items, or all of them
FirstItems(items, n) == SubSeq(items, 1, IF Len(items) < n THEN Len(items) ELSE n)

(* C31: in the React front end, after any sequence of submissions the history
   holds at most 5 items, the most recent first, and its items are those of
   the submissions whose request succeeded: the five latest of them. *)
C31_HistoryFiveLatestFirst ==
    /\ Len(front.history) <= 5
    /\ front.history = FirstItems(LatestFirst(front.succeeded), 5)
    /\ Len(front.history) <= front.settled

C31_Witness ==
    /\ Len(front.succeeded) = 6
    /\ Len(front.history) = 5
    /\ front.history[1].query = <<"z">> /\ front.history[2].query = <<"q", "?">>
    /\ front.succeeded[1].query = <<"q", "?">> /\ front.history[5].query = <<"z">>
    /\ front.error # JString(<<>>)

(* C32: in the React front end, loading is true exactly while a query request
   is in flight: a submission of a non-empty query sets it, every completion
   (success, HTTP error, network error) sets it back to false, and a
   submission of an empty or whitespace-only query sends no request and
   leaves loading false. *)
C32_LoadingWhileInFlight ==
    [][/\ front'.loading <=> front'.sent = front'.settled + 1
       /\ front'.sent \in {front'.settled, front'.settled + 1}
       /\ (front'.query = front.query /\ front' # front /\ ~front.loading) =>
              IF AllBlank(front.query)
              THEN front'.sent = front.sent /\ ~front'.loading
                   /\ front'.error = JString(<<"Please enter a question">>)
              ELSE front'.sent = front.sent + 1 /\ front'.loading
       /\ front'.settled # front.settled => front.loading /\ ~front'.loading]_vars

C32_Witness ==
    /\ ~front.loading
    /\ front.settled = 3 /\ front.sent = 3
    /\ Len(front.succeeded) = 1
    /\ front.query = <<" ">>
    /\ front.error = JString(<<"Please enter a question">>)

\* the query of the request at hand is missing or falsy
NoQuery ==
    \/ ~HasField(http.body, "query")
    \/ FieldOf(http.body, "query") \in {JString(<<>>), JNull, JUndefined}

(* C33: the server answers a POST /api/query whose body has no query, missing
   or falsy, with status 400, and agent.run is not invoked for it: the step
   that takes the request in answers it and leaves the agent as it was. *)
C33_NoQueryIs400 ==
    [][(http' # http /\ http'.state # "listening" /\ NoQuery') =>
          /\ http'.state = "answered"
          /\ Len(http'.responses) = 1 /\ http'.responses[1].status = 400
          /\ nRuns' = nRuns /\ pc' = pc /\ calls' = calls /\ llm' = llm
          /\ userQuery' = userQuery]_vars

C33_Witness ==
    /\ http.state = "answered"
    /\ http.body = JObject(Prop1("query", JString(<<>>)))
    /\ http.responses[1].status = 400
    /\ nRuns = 1 /\ pc = "done"

\* a step of the handler, or one of run() that waits for no upstream
HandlerStepWithoutUpstream == Respond \/ StepWithoutUpstream

\* the one response fits how the request went
ResponseFitsOutcome ==
    /\ Len(http.responses) = 1
    /\ IF NoQuery THEN http.responses[1].status = 400
       ELSE /\ pc = "done"
            /\ result.kind = "return" =>
                  /\ http.responses[1].status = 200
                  /\ Get(http.responses[1].data, "answer") = result.value
            /\ result.kind = "throw" =>
                  /\ http.responses[1].status = 500
                  /\ Get(http.responses[1].data, "error").t = "string"
            /\ (userQuery.t = "string" /\ AllBlank(userQuery.s)) =>
                  /\ http.responses[1].status = 200
                  /\ Get(http.responses[1].data, "answer")
                        = JString(<<"E", "r", "r", "o", "r", ":", " Invalid query provided.">>)

(* C34: every POST /api/query gets exactly one response: 400 when the query
   is missing, 200 with the answer when agent.run resolves (also when it
   resolves to an "Error: ..." text, as for a whitespace-only query), 500
   when agent.run throws; no request is answered twice, and none is left
   unanswered: while one is being handled, a step that waits for no
   upstream is due. *)
C34_ExactlyOneResponse ==
    /\ Len(http.responses) <= 1
    /\ http.state = "answered" => ResponseFitsOutcome
    /\ http.state = "handling" => http.responses = <<>> /\ ENABLED HandlerStepWithoutUpstream

\* the same, without the request whose run() waits for an upstream with no timeout
C34_AtMostOneFittingResponse ==
    /\ Len(http.responses) <= 1
    /\ http.state = "answered" => ResponseFitsOutcome
    /\ http.state = "handling" =>
          /\ http.responses = <<>>
          /\ pc # "search" => ENABLED HandlerStepWithoutUpstream

\* this step starts a call of the language-model client
LlmCallStarts ==
    /\ pc' # pc \/ nRuns' # nRuns
    /\ pc' \in {"classify", "direct", "extract", "synthesize"}

\* the call before this one was answered 404 or 405 and went on to the native endpoint
FellBack(c) ==
    /\ Len(c.requests) = 2
    /\ c.replies[1].kind = "response" /\ isFallbackStatus(c.replies[1].status)

(* C35: the protocol fallback is not remembered between calls: when a
   generate() or chat() call has fallen back to the native endpoint, the next
   call of the same client starts again with one request, to
   {base}/v1/chat/completions. *)
C35_FallbackNotRemembered ==
    [][(LlmCallStarts /\ FellBack(llm)) =>
          /\ llm'.state = "primary"
          /\ Len(llm'.requests) = 1 /\ llm'.replies = <<>>
          /\ llm'.requests[1].url = baseUrl \o <<"/v1/chat/completions">>]_vars

C35_Witness ==
    /\ pc = "synthesize" /\ llm.op = "chat" /\ llm.state = "primary"
    /\ Len(llm.requests) = 1
    /\ llm.requests[1].url = baseUrl \o <<"/v1/chat/completions">>
    /\ Len(answers) = 5
    /\ answers[1].kind = "response" /\ answers[1].status = 404
    /\ answers[3].kind = "response" /\ answers[3].status \in {404, 405}

\* the GET probes of testConnection() that have ended
ProbeGetFailed(i) == Len(probe.replies) >= i /\ ~resolves(probe.replies[i])

\* the probes were made in their order, none after one that succeeded
ProbesInOrder ==
    /\ Len(probe.requests) <= 2
    /\ Len(probe.requests) >= 1 =>
          probe.requests[1] = [url |-> baseUrl \o <<"/v1/models">>, timeout |-> ProbeTimeoutMs]
    /\ Len(probe.requests) = 2 =>
          /\ probe.requests[2] = [url |-> baseUrl \o <<"/api/tags">>, timeout |-> ProbeTimeoutMs]
          /\ ProbeGetFailed(1)
    /\ pc = "models" => Len(probe.requests) = 1 /\ probe.replies = <<>>
    /\ pc = "tags" => Len(probe.requests) = 2 /\ Len(probe.replies) = 1
    /\ pc = "probe" =>
          /\ ProbeGetFailed(1) /\ ProbeGetFailed(2)
          /\ llm.op = "generate" /\ llm.prompt = ProbePrompt

\* a step in which testConnection() returns
ProbeReturns == pc \in {"models", "tags", "probe"} /\ pc' = "done"

(* C36: testConnection() never throws and probes in a fixed order, GET
   /v1/models, then GET /api/tags, then a generate() call: it returns true at
   the first probe that succeeds, without running the later ones, and false
   only when all three have failed, the generate() call by throwing. *)
C36_ProbesInOrderFalseOnlyAfterAll ==
    [][/\ ProbesInOrder'
       /\ ProbeReturns =>
             /\ probe'.value \in {"true", "false"}
             /\ pc = "models" => probe'.value = "true" /\ resolves(probe'.replies[1])
                                  /\ Len(probe'.requests) = 1 /\ llm' = llm
             /\ pc = "tags" => probe'.value = "true" /\ resolves(probe'.replies[2])
                                /\ llm' = llm
             /\ pc = "probe" => (probe'.value = "true" <=> llm.state = "returned")
             /\ probe'.value = "false" =>
                   /\ ProbeGetFailed(1) /\ ProbeGetFailed(2)
                   /\ llm.state = "thrown"]_vars

\* the same, the generate() call counted as failed also when it returns no text
C36_FalseOnlyAfterAllOrNoText ==
    [][/\ ProbesInOrder'
       /\ ProbeReturns =>
             /\ probe'.value \in {"true", "false"}
             /\ pc = "models" => probe'.value = "true" /\ resolves(probe'.replies[1])
                                  /\ Len(probe'.requests) = 1 /\ llm' = llm
             /\ pc = "tags" => probe'.value = "true" /\ resolves(probe'.replies[2])
                                /\ llm' = llm
             /\ pc = "probe" =>
                   (probe'.value = "true" <=> llm.state = "returned" /\ llm.value.t = "string")
             /\ probe'.value = "false" =>
                   /\ ProbeGetFailed(1) /\ ProbeGetFailed(2)
                   /\ llm.state = "thrown" \/ llm.value.t # "string"]_vars

\* the word exit, in every letter case
ExitSpellings ==
    {<<e, x, i, t>> : e \in {"e", "E"}, x \in {"x", "X"}, i \in {"i", "I"}, t \in {"t", "T"}}

(* C37: the command-line loop handles one question at a time: while a question
   is asked no run() is in progress, the next question is asked only in a step
   taken once the run() of the current one has resolved or thrown, after the
   one as after the other, and the line "exit", in any letter case, closes the
   loop for good without a call of run(). *)
C37_OneQuestionAtATime ==
    [][/\ cli'.state = "prompting" => pc' \in {"idle", "done"}
       /\ cli'.prompts # cli.prompts =>
             /\ cli'.prompts = cli.prompts + 1 /\ cli'.state = "prompting"
             /\ cli.state = "off" \/ (cli.state = "running" /\ pc = "done"
                                       /\ result.kind \in {"return", "throw"})
       /\ (cli.state = "running" /\ cli' # cli) =>
             cli'.state = "prompting" /\ cli'.prompts = cli.prompts + 1
       /\ (cli.state = "prompting" /\ cli' # cli) =>
             IF cli'.line \in ExitSpellings
             THEN cli'.state = "closed" /\ nRuns' = nRuns /\ pc' = pc /\ calls' = calls
             ELSE cli'.state = "running" /\ nRuns' = nRuns + 1
       /\ cli.state = "closed" => cli' = cli /\ nRuns' = nRuns /\ pc' = pc]_vars

C37_Witness ==
    /\ cli.state = "closed" /\ cli.line = <<"E", "x", "i", "t">>
    /\ cli.prompts = 3 /\ nRuns = 2
    /\ cli.printed.kind = "throw"

====
